---- MODULE Spec2Model ----
(***************************************************************************)
(* Model of the AmbianceApp native audio engines:                          *)
(*   android/.../AmbianceAudioEngineModule.java  (MediaPlayer engine)      *)
(*   ios/AmbianceAudioEngine/AmbianceAudioEngine.swift (AVAudioEngine)     *)
(* The platform is fixed when the application starts; the operations of    *)
(* the Android engine are Initialize, AddTrack, ..., those of the iOS      *)
(* engine carry the prefix IOS.                                            *)
(* Volumes, pans and gains are exact rationals [n, d] in lowest terms.     *)
(* Times are milliseconds.                                                 *)
(***************************************************************************)
EXTENDS Integers, Sequences, FiniteSets, TLC

\* ------------------------------------------------------------------ bounds
MaxRunnables == 2
TimerClockSteps == 1
MaxDurationSec == 1
MaxFadeSec == 1
RaceClockSteps == 1
FadeClockSteps == 2
LiveClockSteps == 2
BridgeClockSteps == 1
LifecycleClockSteps == 1
IOSFadeClockSteps == 2
PairClockSteps == 1

\* ------------------------------------------------------- program constants
TickPeriod == 1000
LoopLen == 2

TrackIds == {"rain", "ocean"}
RunnableIds == 1..MaxRunnables

\* ---------------------------------------------------------------- rationals
RECURSIVE GCD(_, _)
GCD(a, b) == IF b = 0 THEN a ELSE GCD(b, a % b)

Abs(x) == IF x < 0 THEN -x ELSE x

\* the fraction p[1] / p[2] in lowest terms, with a positive denominator
Reduced(p) ==
    LET g == GCD(Abs(p[1]), Abs(p[2]))
        s == IF p[2] < 0 THEN -1 ELSE 1
    IN  IF p[1] = 0 THEN [n |-> 0, d |-> 1]
        ELSE [n |-> s * (p[1] \div g), d |-> s * (p[2] \div g)]

\* n and d are evaluated once, whatever expressions they are
Frac(n, d) == CHOOSE f \in {Reduced(p) : p \in {<<n, d>>}} : TRUE

FZero == Frac(0, 1)
FOne == Frac(1, 1)
FMul(a, b) == Frac(a.n * b.n, a.d * b.d)
FAdd(a, b) == Frac(a.n * b.d + b.n * a.d, a.d * b.d)
FSub(a, b) == Frac(a.n * b.d - b.n * a.d, a.d * b.d)
FLt(a, b) == a.n * b.d < b.n * a.d
FLe(a, b) == a.n * b.d <= b.n * a.d
FMin(a, b) == IF FLe(a, b) THEN a ELSE b
FMax(a, b) == IF FLe(a, b) THEN b ELSE a

\* ------------------------------------------------------------------- inputs
VolumeInputs == {Frac(n, 2) : n \in -1..3}
PanInputs == {Frac(n, 2) : n \in -3..3}
CoarseVolumeInputs == {FZero, FOne}
DurationInputs == {[num |-> n, den |-> 60] : n \in 0..MaxDurationSec}
FadeInputs == {[num |-> n, den |-> 60] : n \in 0..MaxFadeSec}

\* (long)(minutes * 60 * 1000): truncation toward zero
ToMillis(m) ==
    LET p == m.num * 60 * 1000
    IN  IF p >= 0 THEN p \div m.den ELSE -((-p) \div m.den)

VARIABLES
    platform,        \* Platform.OS: which native engine is behind the bridge
    isInitialized,   \* boolean
    isPlaying,       \* engine playing flag
    masterVolume,    \* rational
    players,         \* trackId -> MediaPlayer
    trackConfigs,    \* trackId -> TrackConfig
    loading,         \* addTrack tasks submitted to the executor
    timerConfig,     \* << >> (null) or << TimerConfig >>
    timerStartTime,  \* ms
    timerRunnable,   \* 0 (null) or runnable id (iOS: playbackTimer)
    queue,           \* main-looper message queue: runnable id -> due time (iOS: scheduled Timers)
    running,         \* runnable whose run() is between handleTimerTick and postDelayed (0: none)
    tick,            \* handleTimerTick() on the main thread: its position and its locals
    now,             \* System.currentTimeMillis()
    lastOp,          \* the operation performed by the last step
    lastEvents,      \* events sent by the last native step, in order, until the bridge
                     \* has handled them
    transportState,  \* Idle / Playing / Paused / Stopped as driven by play/pause/stop
    playingAtPause,  \* tracks whose player was playing when pause() last ran
    expiryCount,     \* handleTimerExpired runs since the last setTimer (saturating at 2)
    bridgeIsInitialized, \* NativeAudioBridge.isInitialized
    emitterSubscribed,   \* the handlers of setupEventListeners() are registered with the emitter
    call,            \* the bridge call in progress or last settled
    scenes,          \* the scenes saveScene() has stored: sceneId -> scene data
    sceneLoad,       \* loadSceneFromObject(): whether it is executing, and its position
    peer,            \* the iOS engine that is given the same calls as the Android engine
                     \* when the two are compared: its fields
    eventListeners,  \* the bridge's eventListeners: event name -> set of listeners
    invocations,     \* the listener calls made for the last batch of native events
    fadeGain         \* trackId -> gain last applied by a fade tick of the armed timer, the
                     \*            stored volume it was computed from, and the gain of the
                     \*            fade tick before it (for the same stored volume)

vars == <<platform, isInitialized, isPlaying, masterVolume, players, trackConfigs, loading,
          timerConfig, timerStartTime, timerRunnable, queue, running, tick, now,
          lastOp, lastEvents, eventListeners, invocations,
          bridgeIsInitialized, emitterSubscribed, call, scenes, sceneLoad, peer,
          transportState, playingAtPause, expiryCount, fadeGain>>

engineVars == <<isInitialized, isPlaying, masterVolume, players, trackConfigs, loading>>
timerVars == <<timerConfig, timerStartTime, timerRunnable, queue, running, tick>>

Platforms == {"android", "ios"}

NullConfig == << >>
NullRunnable == 0
\* handleTimerTick() is not executing
TickIdle == [pc |-> "idle", targetVolume |-> FOne, todo |-> {}, track |-> ""]

Op(name, id, arg, ok) == [op |-> name, id |-> id, arg |-> arg, ok |-> ok, from |-> ""]
\* no bridge call has been made
NoCall == [method |-> "", id |-> "", arg |-> FZero, state |-> "none", value |-> FALSE, error |-> ""]
\* the fields of AmbianceAudioEngine (Swift) after init()
NewPeer ==
    [isInitialized |-> FALSE, isPlaying |-> FALSE, players |-> << >>, trackConfigs |-> << >>,
     loading |-> {}, timerConfig |-> << >>, timerStartTime |-> 0, timerRunnable |-> 0,
     queue |-> << >>]
\* loadSceneFromObject() is not executing
NoSceneLoad == [state |-> "none", id |-> "", tracks |-> << >>, step |-> ""]
\* a play() call, with the transport state it was made in
PlayOp(ok, from) == [op |-> "play", id |-> "", arg |-> FZero, ok |-> ok, from |-> from]
\* a timer callback, with whether the callback object r is the armed timer's one
TickOp(name, r) ==
    [op |-> name, id |-> "", arg |-> FZero, ok |-> TRUE,
     from |-> IF r = timerRunnable THEN "armed" ELSE "cancelled"]

\* -------------------------------------------------------------- data types
DefaultVolume == Frac(1, 2)
DefaultPan == FZero

NewTrackConfig == [volume |-> DefaultVolume, pan |-> DefaultPan, isPlaying |-> FALSE]

\* new MediaPlayer(); setLooping(true); prepare(): prepared, at the start, unity gains
NewMediaPlayer == [state |-> "prepared", pos |-> 0, left |-> FOne, right |-> FOne]

PlayerIsPlaying(p) == p.state = "started"

PlayerSetVolume(p, l, r) == [p EXCEPT !.left = l, !.right = r]
PlayerStart(p) == [p EXCEPT !.state = "started"]
PlayerPause(p) == [p EXCEPT !.state = "paused"]
\* player.stop(); player.prepare(): prepared again, position back at the start
PlayerStopPrepare(p) == [p EXCEPT !.state = "prepared", !.pos = 0]

ClampVolumeNoCeiling(v) == FMax(FZero, v)
ClampVolume(v) == FMax(FZero, FMin(FOne, v))
ClampPan(p) == FMax(Frac(-1, 1), FMin(FOne, p))

PanVolumesUnattenuated(baseVolume, clampedPan) ==
    [left |-> baseVolume, right |-> baseVolume]
\* the left/right volumes computed by setPanning
PanVolumes(baseVolume, clampedPan) ==
    IF FLt(clampedPan, FZero)
    THEN [left |-> baseVolume, right |-> FMul(baseVolume, FAdd(FOne, clampedPan))]
    ELSE [left |-> FMul(baseVolume, FSub(FOne, clampedPan)), right |-> baseVolume]

\* -------------------------------------------------------------------- Init
Init ==
    /\ platform \in Platforms
    /\ isInitialized = FALSE
    /\ isPlaying = FALSE
    /\ masterVolume = FOne
    /\ players = << >>
    /\ trackConfigs = << >>
    /\ loading = {}
    /\ timerConfig = NullConfig
    /\ timerStartTime = 0
    /\ timerRunnable = NullRunnable
    /\ queue = << >>
    /\ running = 0
    /\ tick = TickIdle
    /\ now = 0
    /\ lastOp = Op("other", "", FZero, TRUE)
    /\ lastEvents = << >>
    /\ eventListeners = << >>
    /\ invocations = << >>
    /\ bridgeIsInitialized = FALSE
    /\ emitterSubscribed = TRUE
    /\ call = NoCall
    /\ scenes = << >>
    /\ sceneLoad = NoSceneLoad
    /\ peer = NewPeer
    /\ transportState = "Idle"
    /\ playingAtPause = {}
    /\ expiryCount = 0
    /\ fadeGain = << >>

ghostVars == <<transportState, playingAtPause, expiryCount, fadeGain>>

\* ---------------------------------------------------------------- helpers
Without(f, k) == [x \in DOMAIN f \ {k} |-> f[x]]
With(f, k, v) == [x \in DOMAIN f \cup {k} |-> IF x = k THEN v ELSE f[x]]

TimerRecord(duration, fadeOut, fadeOutDuration) ==
    [duration |-> ToMillis(duration), fadeOut |-> fadeOut,
     fadeOutDuration |-> ToMillis(fadeOutDuration)]

CancelTimerKeepsConfig(q, r) ==
    [queue |-> IF r # NullRunnable THEN Without(q, r) ELSE q,
     timerRunnable |-> NullRunnable,
     timerConfig |-> timerConfig,
     timerStartTime |-> timerStartTime]
\* cancelTimer(): the state it leaves, as [queue, timerRunnable, timerConfig, timerStartTime]
CancelTimer(q, r) ==
    [queue |-> IF r # NullRunnable THEN Without(q, r) ELSE q,
     timerRunnable |-> NullRunnable,
     timerConfig |-> NullConfig,
     timerStartTime |-> 0]

\* the loop of stop() over players / trackConfigs
StopPlayers(pl) ==
    [t \in DOMAIN pl |-> IF PlayerIsPlaying(pl[t]) THEN PlayerStopPrepare(pl[t]) ELSE pl[t]]
StopConfigs(tc) ==
    [t \in DOMAIN tc |-> [tc[t] EXCEPT !.isPlaying = FALSE]]

ShouldStartAnyVolume(pl, tc, t) == ~PlayerIsPlaying(pl[t])
\* the loop of play()
ShouldStart(pl, tc, t) == FLt(FZero, tc[t].volume) /\ ~PlayerIsPlaying(pl[t])
PlayPlayers(pl, tc) ==
    [t \in DOMAIN pl |-> IF ShouldStart(pl, tc, t) THEN PlayerStart(pl[t]) ELSE pl[t]]
PlayConfigs(pl, tc) ==
    [t \in DOMAIN tc |-> IF ShouldStart(pl, tc, t) THEN [tc[t] EXCEPT !.isPlaying = TRUE] ELSE tc[t]]

\* the loop of pause()
PausePlayers(pl) ==
    [t \in DOMAIN pl |-> IF PlayerIsPlaying(pl[t]) THEN PlayerPause(pl[t]) ELSE pl[t]]
PauseConfigs(pl, tc) ==
    [t \in DOMAIN tc |-> IF PlayerIsPlaying(pl[t]) THEN [tc[t] EXCEPT !.isPlaying = FALSE] ELSE tc[t]]

FadeTargetProgress(remainingTime, fadeOutDuration) ==
    FSub(FOne, Frac(remainingTime, fadeOutDuration))
\* the fade branch of handleTimerTick()
FadeTarget(remainingTime, fadeOutDuration) ==
    FSub(FOne, FSub(FOne, Frac(remainingTime, fadeOutDuration)))
FadePlayers(pl, tc, mv, targetVolume) ==
    [t \in DOMAIN pl |->
        IF tc[t].isPlaying
        THEN LET fadeVolume == FMul(FMul(tc[t].volume, targetVolume), mv)
             IN  PlayerSetVolume(pl[t], fadeVolume, fadeVolume)
        ELSE pl[t]]

FadeConfigsPersisted(tc, targetVolume) ==
    [t \in DOMAIN tc |->
        IF tc[t].isPlaying THEN [tc[t] EXCEPT !.volume = FMul(@, targetVolume)] ELSE tc[t]]
\* the TrackConfig entries after the loop of handleTimerTick(): it only reads them
FadeConfigs(tc, targetVolume) == tc

\* the audioFile argument of the addTrack() calls for each track id
AudioFile == [rain |-> "rain.mp3", ocean |-> "ocean.mp3"]

\* the "tracks" map saveScene() writes
SceneTracksAll(tc) ==
    [t \in DOMAIN tc |->
        [audioFile |-> AudioFile[t], volume |-> tc[t].volume, pan |-> tc[t].pan]]
SceneTracks(tc) ==
    [t \in {x \in DOMAIN tc : FLt(FZero, tc[x].volume)} |->
        [audioFile |-> AudioFile[t], volume |-> tc[t].volume, pan |-> tc[t].pan]]

\* fadeGain after a fade step that set the gains of the tracks in faded
FadeRecord(fg, pl, tc, faded) ==
    [t \in DOMAIN fg \cup faded |->
        IF t \in faded
        THEN [gain |-> pl[t].left, volume |-> tc[t].volume,
              prev |-> IF t \in DOMAIN fg /\ fg[t].volume = tc[t].volume
                       THEN fg[t].gain ELSE pl[t].left]
        ELSE fg[t]]

PlayingSet(pl) == {t \in DOMAIN pl : PlayerIsPlaying(pl[t])}

\* ---------------------------------------------------------------- actions
AndroidInitialize ==
    /\ platform = "android"
    /\ isInitialized' = TRUE
    /\ lastOp' = Op("other", "", FZero, TRUE)
    /\ lastEvents' = <<"onInitialized">>
    /\ UNCHANGED <<platform, sceneLoad, bridgeIsInitialized, emitterSubscribed, call, scenes, eventListeners, invocations, isPlaying, masterVolume, players, trackConfigs, loading, now>>
    /\ UNCHANGED timerVars
    /\ UNCHANGED ghostVars

Initialize == AndroidInitialize /\ UNCHANGED peer

\* addTrack(): the call itself; the load runs on the executor
AndroidAddTrack(t) ==
    /\ platform = "android"
    /\ IF ~isInitialized
       THEN /\ lastOp' = Op("other", "", FZero, TRUE)
            /\ UNCHANGED loading
       ELSE /\ lastOp' = Op("other", "", FZero, TRUE)
            /\ loading' = loading \cup {t}
    /\ lastEvents' = << >>
    /\ UNCHANGED <<platform, sceneLoad, bridgeIsInitialized, emitterSubscribed, call, scenes, eventListeners, invocations, isInitialized, isPlaying, masterVolume, players, trackConfigs, now>>
    /\ UNCHANGED timerVars
    /\ UNCHANGED ghostVars

AddTrack(t) == AndroidAddTrack(t) /\ UNCHANGED peer

\* the executor task of addTrack(): load succeeded, publish player and config
AndroidAddTrackLoaded(t) ==
    /\ platform = "android"
    /\ t \in loading
    /\ loading' = loading \ {t}
    /\ players' = With(players, t, NewMediaPlayer)
    /\ trackConfigs' = With(trackConfigs, t, NewTrackConfig)
    /\ lastOp' = Op("other", "", FZero, TRUE)
    /\ lastEvents' = <<"onTrackAdded">>
    /\ UNCHANGED <<platform, sceneLoad, bridgeIsInitialized, emitterSubscribed, call, scenes, eventListeners, invocations, isInitialized, isPlaying, masterVolume, now>>
    /\ UNCHANGED timerVars
    /\ UNCHANGED ghostVars

AddTrackLoaded(t) == AndroidAddTrackLoaded(t) /\ UNCHANGED peer

\* the executor task of addTrack(): openFd / setDataSource / prepare threw IOException
AddTrackFailed(t) ==
    /\ platform = "android"
    /\ t \in loading
    /\ loading' = loading \ {t}
    /\ lastOp' = Op("other", "", FZero, TRUE)
    /\ lastEvents' = << >>
    /\ UNCHANGED <<platform, peer, sceneLoad, bridgeIsInitialized, emitterSubscribed, call, scenes, eventListeners, invocations, isInitialized, isPlaying, masterVolume, players, trackConfigs, now>>
    /\ UNCHANGED timerVars
    /\ UNCHANGED ghostVars

AndroidSetVolume(t, volume) ==
    /\ platform = "android"
    /\ IF t \notin DOMAIN players
       THEN /\ lastOp' = Op("setVolume", t, volume, FALSE)
            /\ UNCHANGED <<players, trackConfigs>>
       ELSE LET clampedVolume == ClampVolume(volume)
                g == FMul(clampedVolume, masterVolume)
            IN  /\ players' = [players EXCEPT ![t] = PlayerSetVolume(@, g, g)]
                /\ trackConfigs' = [trackConfigs EXCEPT ![t].volume = clampedVolume]
                /\ lastOp' = Op("setVolume", t, volume, TRUE)
    /\ lastEvents' = << >>
    /\ UNCHANGED <<platform, sceneLoad, bridgeIsInitialized, emitterSubscribed, call, scenes, eventListeners, invocations, isInitialized, isPlaying, masterVolume, loading, now>>
    /\ UNCHANGED timerVars
    /\ UNCHANGED ghostVars

SetVolumeAutoStart(t, volume) ==
    /\ platform = "android"
    /\ IF t \notin DOMAIN players
       THEN /\ lastOp' = Op("setVolume", t, volume, FALSE)
            /\ UNCHANGED <<players, trackConfigs>>
       ELSE LET clampedVolume == ClampVolume(volume)
                g == FMul(clampedVolume, masterVolume)
                start == isPlaying /\ FLt(FZero, clampedVolume)
            IN  /\ players' = [players EXCEPT ![t] =
                        IF start THEN PlayerStart(PlayerSetVolume(@, g, g))
                        ELSE PlayerSetVolume(@, g, g)]
                /\ trackConfigs' = [trackConfigs EXCEPT ![t].volume = clampedVolume,
                                        ![t].isPlaying = IF start THEN TRUE ELSE @]
                /\ lastOp' = Op("setVolume", t, volume, TRUE)
    /\ lastEvents' = << >>
    /\ UNCHANGED <<platform, peer, sceneLoad, bridgeIsInitialized, emitterSubscribed, call, scenes, eventListeners, invocations, isInitialized, isPlaying, masterVolume, loading, now>>
    /\ UNCHANGED timerVars
    /\ UNCHANGED ghostVars

SetVolume(t, volume) == AndroidSetVolume(t, volume) /\ UNCHANGED peer

AndroidSetPanning(t, pan) ==
    /\ platform = "android"
    /\ IF t \notin DOMAIN players
       THEN /\ lastOp' = Op("setPanning", t, pan, FALSE)
            /\ UNCHANGED <<players, trackConfigs>>
       ELSE LET clampedPan == ClampPan(pan)
                baseVolume == FMul(trackConfigs[t].volume, masterVolume)
                lr == PanVolumes(baseVolume, clampedPan)
            IN  /\ players' = [players EXCEPT ![t] = PlayerSetVolume(@, lr.left, lr.right)]
                /\ trackConfigs' = [trackConfigs EXCEPT ![t].pan = clampedPan]
                /\ lastOp' = Op("setPanning", t, pan, TRUE)
    /\ lastEvents' = << >>
    /\ UNCHANGED <<platform, sceneLoad, bridgeIsInitialized, emitterSubscribed, call, scenes, eventListeners, invocations, isInitialized, isPlaying, masterVolume, loading, now>>
    /\ UNCHANGED timerVars
    /\ UNCHANGED ghostVars

SetPanning(t, pan) == AndroidSetPanning(t, pan) /\ UNCHANGED peer

AndroidPlay ==
    /\ platform = "android"
    /\ IF ~isInitialized
       THEN /\ lastOp' = PlayOp(FALSE, transportState)
            /\ lastEvents' = << >>
            /\ UNCHANGED <<players, trackConfigs, isPlaying, transportState>>
       ELSE /\ players' = PlayPlayers(players, trackConfigs)
            /\ trackConfigs' = PlayConfigs(players, trackConfigs)
            /\ isPlaying' = TRUE
            /\ transportState' = "Playing"
            /\ lastOp' = PlayOp(TRUE, transportState)
            /\ lastEvents' = <<"onPlaybackStarted">>
    /\ UNCHANGED <<platform, sceneLoad, bridgeIsInitialized, emitterSubscribed, call, scenes, eventListeners, invocations, isInitialized, masterVolume, loading, now, playingAtPause, expiryCount, fadeGain>>
    /\ UNCHANGED timerVars

Play == AndroidPlay /\ UNCHANGED peer

AndroidPause ==
    /\ platform = "android"
    /\ players' = PausePlayers(players)
    /\ trackConfigs' = PauseConfigs(players, trackConfigs)
    /\ isPlaying' = FALSE
    /\ IF transportState = "Playing"
       THEN /\ transportState' = "Paused"
            /\ playingAtPause' = PlayingSet(players)
       ELSE UNCHANGED <<transportState, playingAtPause>>
    /\ lastOp' = Op("pause", "", FZero, TRUE)
    /\ lastEvents' = <<"onPlaybackPaused">>
    /\ UNCHANGED <<platform, sceneLoad, bridgeIsInitialized, emitterSubscribed, call, scenes, eventListeners, invocations, isInitialized, masterVolume, loading, now, expiryCount, fadeGain>>
    /\ UNCHANGED timerVars

Pause == AndroidPause /\ UNCHANGED peer

AndroidStop ==
    /\ platform = "android"
    /\ players' = StopPlayers(players)
    /\ trackConfigs' = StopConfigs(trackConfigs)
    /\ LET c == CancelTimer(queue, timerRunnable)
       IN  /\ queue' = c.queue
           /\ timerRunnable' = c.timerRunnable
           /\ timerConfig' = c.timerConfig
           /\ timerStartTime' = c.timerStartTime
    /\ isPlaying' = FALSE
    /\ transportState' = "Stopped"
    /\ lastOp' = Op("stop", "", FZero, TRUE)
    /\ lastEvents' = <<"onPlaybackStopped">>
    /\ UNCHANGED <<platform, sceneLoad, bridgeIsInitialized, emitterSubscribed, call, scenes, eventListeners, invocations, isInitialized, masterVolume, loading, now, running, tick,
                   playingAtPause, expiryCount>>
    /\ fadeGain' = << >>

Stop == AndroidStop /\ UNCHANGED peer

\* ids of Runnable objects that are still referenced by the looper or by run()
LiveRunnables == DOMAIN queue \cup (IF running = 0 THEN {} ELSE {running})

AndroidSetTimer(duration, fadeOut, fadeOutDuration) ==
    /\ platform = "android"
    /\ LET c == CancelTimer(queue, timerRunnable)
           free == RunnableIds \ (DOMAIN c.queue \cup (IF running = 0 THEN {} ELSE {running}))
       IN  /\ free # {}
           /\ LET r == CHOOSE x \in free : \A y \in free : x <= y
              IN  /\ timerConfig' = <<TimerRecord(duration, fadeOut, fadeOutDuration)>>
                  /\ timerStartTime' = now
                  /\ timerRunnable' = r
                  /\ queue' = With(c.queue, r, now)
    /\ expiryCount' = 0
    /\ fadeGain' = << >>
    /\ lastOp' = Op("setTimer", "", FZero, TRUE)
    /\ lastEvents' = << >>
    /\ UNCHANGED <<platform, sceneLoad, bridgeIsInitialized, emitterSubscribed, call, scenes, eventListeners, invocations, now, running, tick, transportState, playingAtPause>>
    /\ UNCHANGED engineVars

SetTimer(duration, fadeOut, fadeOutDuration) == AndroidSetTimer(duration, fadeOut, fadeOutDuration) /\ UNCHANGED peer

\* Runnable.run() up to the return of handleTimerTick(), on the main looper
RunTick(r) ==
    /\ platform = "android"
    /\ running = 0
    /\ tick.pc = "idle"
    /\ r \in DOMAIN queue
    /\ queue[r] <= now
    /\ running' = r
    /\ IF timerConfig = NullConfig
       THEN /\ queue' = Without(queue, r)
            /\ lastOp' = TickOp("tick", r)
            /\ lastEvents' = << >>
            /\ UNCHANGED <<players, trackConfigs, isPlaying, timerConfig, timerStartTime,
                           timerRunnable, transportState, expiryCount, fadeGain>>
       ELSE LET cfg == timerConfig[1]
                elapsedTime == now - timerStartTime
                remainingTime == cfg.duration - elapsedTime
            IN  IF remainingTime <= 0
                THEN \* handleTimerExpired(): cancelTimer(); stop(promise)
                     LET c1 == CancelTimer(Without(queue, r), timerRunnable)
                         c2 == CancelTimer(c1.queue, c1.timerRunnable)
                     IN  /\ players' = StopPlayers(players)
                         /\ trackConfigs' = StopConfigs(trackConfigs)
                         /\ queue' = c2.queue
                         /\ timerRunnable' = c2.timerRunnable
                         /\ timerConfig' = c2.timerConfig
                         /\ timerStartTime' = c2.timerStartTime
                         /\ isPlaying' = FALSE
                         /\ transportState' = "Stopped"
                         /\ expiryCount' = IF expiryCount < 2 THEN expiryCount + 1 ELSE 2
                         /\ fadeGain' = << >>
                         /\ lastOp' = TickOp("tickExpired", r)
                         /\ lastEvents' = <<"onTimerExpired", "onPlaybackStopped">>
                ELSE /\ IF cfg.fadeOut /\ remainingTime <= cfg.fadeOutDuration
                        THEN /\ players' = FadePlayers(players, trackConfigs, masterVolume,
                                                FadeTarget(remainingTime, cfg.fadeOutDuration))
                             /\ trackConfigs' = FadeConfigs(trackConfigs,
                                                FadeTarget(remainingTime, cfg.fadeOutDuration))
                             /\ fadeGain' = FadeRecord(fadeGain, players', trackConfigs,
                                                {t \in DOMAIN players : trackConfigs[t].isPlaying})
                             /\ lastOp' = TickOp("tickFade", r)
                        ELSE /\ UNCHANGED <<players, trackConfigs, fadeGain>>
                             /\ lastOp' = TickOp("tick", r)
                     /\ queue' = Without(queue, r)
                     /\ lastEvents' = << >>
                     /\ UNCHANGED <<isPlaying, timerConfig, timerStartTime,
                                    timerRunnable, transportState, expiryCount>>
    /\ UNCHANGED <<platform, peer, sceneLoad, bridgeIsInitialized, emitterSubscribed, call, scenes, eventListeners, invocations, isInitialized, masterVolume, loading, now, tick, playingAtPause>>

RunRepostDropped ==
    /\ platform = "android"
    /\ running # 0
    /\ tick.pc = "idle"
    /\ running' = 0
    /\ lastOp' = Op("other", "", FZero, TRUE)
    /\ lastEvents' = << >>
    /\ UNCHANGED <<platform, peer, sceneLoad, bridgeIsInitialized, emitterSubscribed, call, scenes, eventListeners, invocations, now, tick, timerConfig, timerStartTime, timerRunnable, queue>>
    /\ UNCHANGED engineVars
    /\ UNCHANGED ghostVars
\* Runnable.run(): timerHandler.postDelayed(this, 1000)
RunRepost ==
    /\ platform = "android"
    /\ running # 0
    /\ tick.pc = "idle"
    /\ queue' = With(queue, running, now + TickPeriod)
    /\ running' = 0
    /\ lastOp' = Op("other", "", FZero, TRUE)
    /\ lastEvents' = << >>
    /\ UNCHANGED <<platform, peer, sceneLoad, bridgeIsInitialized, emitterSubscribed, call, scenes, eventListeners, invocations, now, tick, timerConfig, timerStartTime, timerRunnable>>
    /\ UNCHANGED engineVars
    /\ UNCHANGED ghostVars

\* ---- handleTimerTick() statement by statement: the callers' thread may run between
\* the condition at line 479 of handleTimerTick()
InFadeWindow ==
    /\ timerConfig # NullConfig
    /\ LET cfg == timerConfig[1]
           remainingTime == cfg.duration - (now - timerStartTime)
       IN  remainingTime > 0 /\ cfg.fadeOut /\ remainingTime <= cfg.fadeOutDuration

\* the loop of handleTimerTick() after the entry t
LoopNext(k, t) ==
    IF k.todo \ {t} = {}
    THEN TickIdle
    ELSE [k EXCEPT !.pc = "loop", !.todo = @ \ {t}, !.track = ""]

\* Runnable.run() entering handleTimerTick(): in the fade window it computes
\* targetVolume and starts the loop over trackConfigs; otherwise as RunTick
TickEnter(r) ==
    IF InFadeWindow
    THEN /\ platform = "android"
         /\ running = 0
         /\ tick.pc = "idle"
         /\ r \in DOMAIN queue
         /\ queue[r] <= now
         /\ running' = r
         /\ queue' = Without(queue, r)
         /\ LET cfg == timerConfig[1]
                remainingTime == cfg.duration - (now - timerStartTime)
            IN  tick' = IF DOMAIN trackConfigs = {}
                        THEN TickIdle
                        ELSE [pc |-> "loop",
                              targetVolume |-> FadeTarget(remainingTime, cfg.fadeOutDuration),
                              todo |-> DOMAIN trackConfigs, track |-> ""]
         /\ lastOp' = TickOp("tickEnter", r)
         /\ lastEvents' = << >>
         /\ UNCHANGED <<platform, peer, sceneLoad, bridgeIsInitialized, emitterSubscribed, call, scenes, eventListeners, invocations, now, timerConfig, timerStartTime, timerRunnable>>
         /\ UNCHANGED engineVars
         /\ UNCHANGED ghostVars
    ELSE RunTick(r)

\* the loop's condition for the entry t: players.get(trackId), config.isPlaying
TickFadeCheck(t) ==
    /\ platform = "android"
    /\ tick.pc = "loop"
    /\ t \in tick.todo
    /\ tick' = IF t \in DOMAIN players /\ trackConfigs[t].isPlaying
               THEN [tick EXCEPT !.pc = "apply", !.track = t]
               ELSE LoopNext(tick, t)
    /\ lastOp' = TickOp("tickCheck", running)
    /\ lastEvents' = << >>
    /\ UNCHANGED <<platform, peer, sceneLoad, bridgeIsInitialized, emitterSubscribed, call, scenes, eventListeners, invocations, now, timerConfig, timerStartTime, timerRunnable, queue, running>>
    /\ UNCHANGED engineVars
    /\ UNCHANGED ghostVars

\* the loop's body: fadeVolume from the entry's volume, player.setVolume
TickFadeApply ==
    /\ platform = "android"
    /\ tick.pc = "apply"
    /\ LET t == tick.track
           fadeVolume == FMul(FMul(trackConfigs[t].volume, tick.targetVolume), masterVolume)
       IN  players' = [players EXCEPT ![t] = PlayerSetVolume(@, fadeVolume, fadeVolume)]
    /\ tick' = LoopNext(tick, tick.track)
    /\ fadeGain' = FadeRecord(fadeGain, players', trackConfigs, {tick.track})
    /\ lastOp' = TickOp("tickFade", running)
    /\ lastEvents' = << >>
    /\ UNCHANGED <<platform, peer, sceneLoad, bridgeIsInitialized, emitterSubscribed, call, scenes, eventListeners, invocations, isInitialized, isPlaying, masterVolume, trackConfigs, loading, now>>
    /\ UNCHANGED <<timerConfig, timerStartTime, timerRunnable, queue, running>>
    /\ UNCHANGED <<transportState, playingAtPause, expiryCount>>

\* ---- handleTimerExpired() in two parts: the callers' thread may run between the
\* loop of stop() and its last statements
\* the condition at line 476 of handleTimerTick()
TimerRanOut ==
    /\ timerConfig # NullConfig
    /\ timerConfig[1].duration - (now - timerStartTime) <= 0

\* Runnable.run() entering handleTimerTick(): when the time has run out
\* handleTimerExpired() with its cancelTimer() and the loop of stop() over the
\* players; otherwise as RunTick
TickExpireEnter(r) ==
    IF TimerRanOut
    THEN /\ platform = "android"
         /\ running = 0
         /\ tick.pc = "idle"
         /\ r \in DOMAIN queue
         /\ queue[r] <= now
         /\ running' = r
         /\ LET c == CancelTimer(Without(queue, r), timerRunnable)
            IN  /\ queue' = c.queue
                /\ timerRunnable' = c.timerRunnable
                /\ timerConfig' = c.timerConfig
                /\ timerStartTime' = c.timerStartTime
         /\ players' = StopPlayers(players)
         /\ trackConfigs' = StopConfigs(trackConfigs)
         /\ tick' = [TickIdle EXCEPT !.pc = "stopped"]
         /\ fadeGain' = << >>
         /\ lastOp' = TickOp("tickStop", r)
         /\ lastEvents' = << >>
         /\ UNCHANGED <<platform, peer, sceneLoad, bridgeIsInitialized, emitterSubscribed, call, scenes, eventListeners, invocations, isInitialized, isPlaying, masterVolume, loading, now>>
         /\ UNCHANGED <<transportState, playingAtPause, expiryCount>>
    ELSE RunTick(r)

\* the statements of stop() after its loop: cancelTimer(), isPlaying = false, the
\* promise's resolve with its onTimerExpired event, the onPlaybackStopped event
TickExpireFinish ==
    /\ platform = "android"
    /\ tick.pc = "stopped"
    /\ LET c == CancelTimer(queue, timerRunnable)
       IN  /\ queue' = c.queue
           /\ timerRunnable' = c.timerRunnable
           /\ timerConfig' = c.timerConfig
           /\ timerStartTime' = c.timerStartTime
    /\ isPlaying' = FALSE
    /\ transportState' = "Stopped"
    /\ expiryCount' = IF expiryCount < 2 THEN expiryCount + 1 ELSE 2
    /\ fadeGain' = << >>
    /\ tick' = TickIdle
    /\ lastOp' = TickOp("tickExpired", running)
    /\ lastEvents' = <<"onTimerExpired", "onPlaybackStopped">>
    /\ UNCHANGED <<platform, peer, sceneLoad, bridgeIsInitialized, emitterSubscribed, call, scenes, eventListeners, invocations, isInitialized, masterVolume, players, trackConfigs, loading, now, running, playingAtPause>>

\* the wall clock
Advance(maxSteps) ==
    /\ now < maxSteps * TickPeriod
    /\ now' = now + TickPeriod
    /\ lastOp' = Op("other", "", FZero, TRUE)
    /\ lastEvents' = << >>
    /\ UNCHANGED <<platform, peer, sceneLoad, bridgeIsInitialized, emitterSubscribed, call, scenes, eventListeners, invocations>>
    /\ UNCHANGED engineVars
    /\ UNCHANGED timerVars
    /\ UNCHANGED ghostVars

\* a started, looping MediaPlayer moves through its loop
PlaybackProgress(t) ==
    /\ platform = "android"
    /\ t \in DOMAIN players
    /\ PlayerIsPlaying(players[t])
    /\ players' = [players EXCEPT ![t].pos = (@ + 1) % LoopLen]
    /\ lastOp' = Op("other", "", FZero, TRUE)
    /\ lastEvents' = << >>
    /\ UNCHANGED <<platform, peer, sceneLoad, bridgeIsInitialized, emitterSubscribed, call, scenes, eventListeners, invocations, isInitialized, isPlaying, masterVolume, trackConfigs, loading, now>>
    /\ UNCHANGED timerVars
    /\ UNCHANGED ghostVars

\* play() when start() of the player of track failing throws: the tracks in before
\* came earlier in the iteration of the HashMap and have been started
PlayStartThrows(failing, before) ==
    /\ platform = "android"
    /\ isInitialized
    /\ failing \in DOMAIN players
    /\ ShouldStart(players, trackConfigs, failing)
    /\ before \subseteq {t \in DOMAIN players \ {failing} : ShouldStart(players, trackConfigs, t)}
    /\ players' = [t \in DOMAIN players |->
                      IF t \in before THEN PlayerStart(players[t]) ELSE players[t]]
    /\ trackConfigs' = [t \in DOMAIN trackConfigs |->
                      IF t \in before THEN [trackConfigs[t] EXCEPT !.isPlaying = TRUE]
                      ELSE trackConfigs[t]]
    /\ lastOp' = [PlayOp(FALSE, transportState) EXCEPT !.id = failing]
    /\ lastEvents' = << >>
    /\ UNCHANGED <<platform, peer, sceneLoad, bridgeIsInitialized, emitterSubscribed, call, scenes, eventListeners, invocations, isInitialized, isPlaying, masterVolume, loading, now>>
    /\ UNCHANGED timerVars
    /\ UNCHANGED ghostVars

\* the outcomes of the iteration of play() over players.entrySet() when another thread
\* puts a new key into the HashMap: the iterator's next() throws
\* ConcurrentModificationException, or the iteration goes on and does not or does
\* come to the new entry
PublishOutcomes == {"throws", "unseen", "seen"}

\* play() on the callers' thread while the executor task of addTrack(t) publishes the
\* loaded track: the entries in before have been visited when players.put() happens
PlayWhilePublishing(t, before, outcome) ==
    /\ platform = "android"
    /\ isInitialized
    /\ t \in loading
    /\ t \notin DOMAIN players
    /\ before \subseteq DOMAIN players
    /\ outcome \in PublishOutcomes
    /\ outcome = "throws" => before # DOMAIN players
    /\ LET visited == IF outcome = "throws" THEN before ELSE DOMAIN players
           started == {x \in visited : ShouldStart(players, trackConfigs, x)}
           pl == [x \in DOMAIN players |->
                    IF x \in started THEN PlayerStart(players[x]) ELSE players[x]]
           tc == [x \in DOMAIN trackConfigs |->
                    IF x \in started THEN [trackConfigs[x] EXCEPT !.isPlaying = TRUE]
                    ELSE trackConfigs[x]]
       IN  /\ players' = With(pl, t, IF outcome = "seen"
                                     THEN PlayerStart(NewMediaPlayer) ELSE NewMediaPlayer)
           /\ trackConfigs' = With(tc, t, IF outcome = "seen"
                                          THEN [NewTrackConfig EXCEPT !.isPlaying = TRUE]
                                          ELSE NewTrackConfig)
    /\ loading' = loading \ {t}
    /\ IF outcome = "throws"
       THEN /\ lastOp' = [op |-> "playPublish", id |-> t, arg |-> FZero, ok |-> FALSE,
                          from |-> transportState]
            /\ lastEvents' = <<"onTrackAdded">>
            /\ UNCHANGED <<isPlaying, transportState>>
       ELSE /\ lastOp' = [op |-> "playPublish", id |-> t, arg |-> FZero, ok |-> TRUE,
                          from |-> transportState]
            /\ lastEvents' = <<"onPlaybackStarted", "onTrackAdded">>
            /\ isPlaying' = TRUE
            /\ transportState' = "Playing"
    /\ UNCHANGED <<platform, peer, sceneLoad, bridgeIsInitialized, emitterSubscribed, call, scenes, eventListeners, invocations, isInitialized, masterVolume, now, playingAtPause, expiryCount, fadeGain>>
    /\ UNCHANGED timerVars

\* the ids saveScene() can generate
SceneIds == {"scene_1"}

SaveScene(sceneName) ==
    /\ platform = "android"
    /\ \E sceneId \in SceneIds \ DOMAIN scenes :
          /\ scenes' = With(scenes, sceneId,
                            [id |-> sceneId, sceneName |-> sceneName, createdAt |-> now,
                             tracks |-> SceneTracks(trackConfigs)])
          /\ lastOp' = [Op("saveScene", sceneId, FZero, TRUE) EXCEPT !.from = sceneName]
    /\ lastEvents' = << >>
    /\ UNCHANGED <<platform, peer, sceneLoad, bridgeIsInitialized, emitterSubscribed, call, eventListeners, invocations, now>>
    /\ UNCHANGED engineVars
    /\ UNCHANGED timerVars
    /\ UNCHANGED ghostVars

\* onCatalystInstanceDestroy(): every player stopped and released, the maps cleared,
\* the timer cancelled; tasks already given to the executor still run
OnCatalystInstanceDestroy ==
    /\ platform = "android"
    /\ players' = << >>
    /\ trackConfigs' = << >>
    /\ LET c == CancelTimer(queue, timerRunnable)
       IN  /\ queue' = c.queue
           /\ timerRunnable' = c.timerRunnable
           /\ timerConfig' = c.timerConfig
           /\ timerStartTime' = c.timerStartTime
    /\ fadeGain' = << >>
    /\ lastOp' = Op("destroy", "", FZero, TRUE)
    /\ lastEvents' = << >>
    /\ UNCHANGED <<platform, peer, sceneLoad, bridgeIsInitialized, emitterSubscribed, call, scenes, eventListeners, invocations, isInitialized, isPlaying, masterVolume, loading, now, running, tick,
                   transportState, playingAtPause, expiryCount>>

\* ======================================================== the iOS engine
\* AVAudioPlayerNode(): not playing, volume 1, pan 0, nothing scheduled
NewPlayerNode == [playing |-> FALSE, volume |-> FOne, pan |-> FZero, scheduled |-> 0, pos |-> 0]

\* scheduleLoopedPlayback(): one more looping buffer in the node's queue (counted up to 2)
ScheduleLooped(p) == [p EXCEPT !.scheduled = IF @ < 2 THEN @ + 1 ELSE 2]
\* AVAudioPlayerNode.stop(): clears the scheduled buffers and resets the node's timeline
NodeStop(p) == [p EXCEPT !.playing = FALSE, !.scheduled = 0, !.pos = 0]

\* Swift max(_:_:) / min(_:_:) on Float
IOSClampVolume(v) == FMax(FZero, FMin(FOne, v))
IOSClampPan(p) == FMax(Frac(-1, 1), FMin(FOne, p))

\* duration * 60 seconds (TimeInterval), here in milliseconds as a rational
IOSTimerRecord(duration, fadeOut, fadeOutDuration) ==
    [duration |-> Frac(duration.num * 60 * 1000, duration.den), fadeOut |-> fadeOut,
     fadeOutDuration |-> Frac(fadeOutDuration.num * 60 * 1000, fadeOutDuration.den)]

\* cancelTimer(): playbackTimer?.invalidate() and the three fields set to nil
IOSCancelTimer(q, r) ==
    [queue |-> IF r # NullRunnable THEN Without(q, r) ELSE q,
     timerRunnable |-> NullRunnable,
     timerConfig |-> NullConfig,
     timerStartTime |-> 0]

IOSStopPlayers(pl) == [t \in DOMAIN pl |-> NodeStop(pl[t])]
IOSStopConfigs(tc) == [t \in DOMAIN tc |-> [tc[t] EXCEPT !.isPlaying = FALSE]]

IOSPlayPlayers(pl, tc) ==
    [t \in DOMAIN pl |->
        IF FLt(FZero, tc[t].volume)
        THEN [ScheduleLooped(pl[t]) EXCEPT !.playing = TRUE]
        ELSE pl[t]]
IOSPlayConfigs(pl, tc) ==
    [t \in DOMAIN tc |->
        IF FLt(FZero, tc[t].volume) /\ ~pl[t].playing
        THEN [tc[t] EXCEPT !.isPlaying = TRUE]
        ELSE tc[t]]

IOSPausePlayers(pl) == [t \in DOMAIN pl |-> [pl[t] EXCEPT !.playing = FALSE]]
IOSPauseConfigs(tc) == [t \in DOMAIN tc |-> [tc[t] EXCEPT !.isPlaying = FALSE]]

\* the fade branch of handleTimerTick(): every player's volume is scaled in place
IOSFadeTarget(remainingTime, fadeOutDuration) ==
    FSub(FOne, FSub(FOne, Frac(remainingTime.n * fadeOutDuration.d,
                               remainingTime.d * fadeOutDuration.n)))
IOSFadePlayers(pl, targetVolume) ==
    [t \in DOMAIN pl |-> [pl[t] EXCEPT !.volume = FMul(@, targetVolume)]]

IOSPlayingSet(pl) == {t \in DOMAIN pl : pl[t].playing}

IOSInitialize ==
    /\ platform = "ios"
    /\ isInitialized' = TRUE
    /\ lastOp' = Op("other", "", FZero, TRUE)
    /\ lastEvents' = << >>
    /\ UNCHANGED <<platform, peer, sceneLoad, bridgeIsInitialized, emitterSubscribed, call, scenes, eventListeners, invocations, isPlaying, masterVolume, players, trackConfigs, loading, now>>
    /\ UNCHANGED timerVars
    /\ UNCHANGED ghostVars

IOSAddTrack(t) ==
    /\ platform = "ios"
    /\ IF ~isInitialized
       THEN UNCHANGED loading
       ELSE loading' = loading \cup {t}
    /\ lastOp' = Op("other", "", FZero, TRUE)
    /\ lastEvents' = << >>
    /\ UNCHANGED <<platform, peer, sceneLoad, bridgeIsInitialized, emitterSubscribed, call, scenes, eventListeners, invocations, isInitialized, isPlaying, masterVolume, players, trackConfigs, now>>
    /\ UNCHANGED timerVars
    /\ UNCHANGED ghostVars

\* the file was read: attach the node and publish it, on the main queue
IOSAddTrackLoaded(t) ==
    /\ platform = "ios"
    /\ t \in loading
    /\ loading' = loading \ {t}
    /\ players' = With(players, t, NewPlayerNode)
    /\ trackConfigs' = With(trackConfigs, t, NewTrackConfig)
    /\ lastOp' = Op("other", "", FZero, TRUE)
    /\ lastEvents' = << >>
    /\ UNCHANGED <<platform, peer, sceneLoad, bridgeIsInitialized, emitterSubscribed, call, scenes, eventListeners, invocations, isInitialized, isPlaying, masterVolume, now>>
    /\ UNCHANGED timerVars
    /\ UNCHANGED ghostVars

\* the file was not found or could not be read
IOSAddTrackFailed(t) ==
    /\ platform = "ios"
    /\ t \in loading
    /\ loading' = loading \ {t}
    /\ lastOp' = Op("other", "", FZero, TRUE)
    /\ lastEvents' = << >>
    /\ UNCHANGED <<platform, peer, sceneLoad, bridgeIsInitialized, emitterSubscribed, call, scenes, eventListeners, invocations, isInitialized, isPlaying, masterVolume, players, trackConfigs, now>>
    /\ UNCHANGED timerVars
    /\ UNCHANGED ghostVars

IOSSetVolume(t, volume) ==
    /\ platform = "ios"
    /\ IF t \notin DOMAIN players
       THEN /\ lastOp' = Op("setVolume", t, volume, FALSE)
            /\ UNCHANGED <<players, trackConfigs>>
       ELSE LET clampedVolume == IOSClampVolume(volume)
            IN  /\ players' = [players EXCEPT ![t].volume = clampedVolume]
                /\ trackConfigs' = [trackConfigs EXCEPT ![t].volume = clampedVolume]
                /\ lastOp' = Op("setVolume", t, volume, TRUE)
    /\ lastEvents' = << >>
    /\ UNCHANGED <<platform, peer, sceneLoad, bridgeIsInitialized, emitterSubscribed, call, scenes, eventListeners, invocations, isInitialized, isPlaying, masterVolume, loading, now>>
    /\ UNCHANGED timerVars
    /\ UNCHANGED ghostVars

IOSSetPanning(t, pan) ==
    /\ platform = "ios"
    /\ IF t \notin DOMAIN players
       THEN /\ lastOp' = Op("setPanning", t, pan, FALSE)
            /\ UNCHANGED <<players, trackConfigs>>
       ELSE LET clampedPan == IOSClampPan(pan)
            IN  /\ players' = [players EXCEPT ![t].pan = clampedPan]
                /\ trackConfigs' = [trackConfigs EXCEPT ![t].pan = clampedPan]
                /\ lastOp' = Op("setPanning", t, pan, TRUE)
    /\ lastEvents' = << >>
    /\ UNCHANGED <<platform, peer, sceneLoad, bridgeIsInitialized, emitterSubscribed, call, scenes, eventListeners, invocations, isInitialized, isPlaying, masterVolume, loading, now>>
    /\ UNCHANGED timerVars
    /\ UNCHANGED ghostVars

IOSPlay ==
    /\ platform = "ios"
    /\ IF ~isInitialized
       THEN /\ lastOp' = PlayOp(FALSE, transportState)
            /\ UNCHANGED <<players, trackConfigs, isPlaying, transportState>>
       ELSE /\ players' = IOSPlayPlayers(players, trackConfigs)
            /\ trackConfigs' = IOSPlayConfigs(players, trackConfigs)
            /\ isPlaying' = TRUE
            /\ transportState' = "Playing"
            /\ lastOp' = PlayOp(TRUE, transportState)
    /\ lastEvents' = << >>
    /\ UNCHANGED <<platform, peer, sceneLoad, bridgeIsInitialized, emitterSubscribed, call, scenes, eventListeners, invocations, isInitialized, masterVolume, loading, now, playingAtPause, expiryCount, fadeGain>>
    /\ UNCHANGED timerVars

IOSPause ==
    /\ platform = "ios"
    /\ players' = IOSPausePlayers(players)
    /\ trackConfigs' = IOSPauseConfigs(trackConfigs)
    /\ isPlaying' = FALSE
    /\ IF transportState = "Playing"
       THEN /\ transportState' = "Paused"
            /\ playingAtPause' = IOSPlayingSet(players)
       ELSE UNCHANGED <<transportState, playingAtPause>>
    /\ lastOp' = Op("pause", "", FZero, TRUE)
    /\ lastEvents' = << >>
    /\ UNCHANGED <<platform, peer, sceneLoad, bridgeIsInitialized, emitterSubscribed, call, scenes, eventListeners, invocations, isInitialized, masterVolume, loading, now, expiryCount, fadeGain>>
    /\ UNCHANGED timerVars

IOSStop ==
    /\ platform = "ios"
    /\ players' = IOSStopPlayers(players)
    /\ trackConfigs' = IOSStopConfigs(trackConfigs)
    /\ LET c == IOSCancelTimer(queue, timerRunnable)
       IN  /\ queue' = c.queue
           /\ timerRunnable' = c.timerRunnable
           /\ timerConfig' = c.timerConfig
           /\ timerStartTime' = c.timerStartTime
    /\ isPlaying' = FALSE
    /\ transportState' = "Stopped"
    /\ lastOp' = Op("stop", "", FZero, TRUE)
    /\ lastEvents' = << >>
    /\ UNCHANGED <<platform, peer, sceneLoad, bridgeIsInitialized, emitterSubscribed, call, scenes, eventListeners, invocations, isInitialized, masterVolume, loading, now, running, tick,
                   playingAtPause, expiryCount>>
    /\ fadeGain' = << >>

\* Timer.scheduledTimer(withTimeInterval: 1.0, repeats: true): first fire one interval from now
IOSSetTimer(duration, fadeOut, fadeOutDuration) ==
    /\ platform = "ios"
    /\ LET c == IOSCancelTimer(queue, timerRunnable)
           free == RunnableIds \ DOMAIN c.queue
       IN  /\ free # {}
           /\ LET r == CHOOSE x \in free : \A y \in free : x <= y
              IN  /\ timerConfig' = <<IOSTimerRecord(duration, fadeOut, fadeOutDuration)>>
                  /\ timerStartTime' = now
                  /\ timerRunnable' = r
                  /\ queue' = With(c.queue, r, now + TickPeriod)
    /\ expiryCount' = 0
    /\ fadeGain' = << >>
    /\ lastOp' = Op("setTimer", "", FZero, TRUE)
    /\ lastEvents' = << >>
    /\ UNCHANGED <<platform, peer, sceneLoad, bridgeIsInitialized, emitterSubscribed, call, scenes, eventListeners, invocations, now, running, tick, transportState, playingAtPause>>
    /\ UNCHANGED engineVars

\* the repeating Timer fires: handleTimerTick()
IOSTimerFire(r) ==
    /\ platform = "ios"
    /\ r \in DOMAIN queue
    /\ queue[r] <= now
    /\ IF timerConfig = NullConfig
       THEN /\ queue' = With(queue, r, now + TickPeriod)
            /\ lastOp' = TickOp("tick", r)
            /\ UNCHANGED <<players, trackConfigs, isPlaying, timerConfig, timerStartTime,
                           timerRunnable, transportState, expiryCount, fadeGain>>
       ELSE LET cfg == timerConfig[1]
                elapsedTime == Frac(now - timerStartTime, 1)
                remainingTime == FSub(cfg.duration, elapsedTime)
            IN  IF FLe(remainingTime, FZero)
                THEN \* handleTimerExpired(): cancelTimer(); stop; no event is sent
                     LET c1 == IOSCancelTimer(queue, timerRunnable)
                         c2 == IOSCancelTimer(c1.queue, c1.timerRunnable)
                     IN  /\ players' = IOSStopPlayers(players)
                         /\ trackConfigs' = IOSStopConfigs(trackConfigs)
                         /\ queue' = c2.queue
                         /\ timerRunnable' = c2.timerRunnable
                         /\ timerConfig' = c2.timerConfig
                         /\ timerStartTime' = c2.timerStartTime
                         /\ isPlaying' = FALSE
                         /\ transportState' = "Stopped"
                         /\ expiryCount' = IF expiryCount < 2 THEN expiryCount + 1 ELSE 2
                         /\ fadeGain' = << >>
                         /\ lastOp' = TickOp("tickExpired", r)
                ELSE /\ IF cfg.fadeOut /\ FLe(remainingTime, cfg.fadeOutDuration)
                        THEN /\ players' = IOSFadePlayers(players,
                                                IOSFadeTarget(remainingTime, cfg.fadeOutDuration))
                             /\ fadeGain' = [t \in DOMAIN players |->
                                                [gain |-> players'[t].volume,
                                                 volume |-> trackConfigs[t].volume,
                                                 prev |-> players[t].volume]]
                             /\ lastOp' = TickOp("tickFade", r)
                        ELSE /\ UNCHANGED <<players, fadeGain>>
                             /\ lastOp' = TickOp("tick", r)
                     /\ queue' = With(queue, r, now + TickPeriod)
                     /\ UNCHANGED <<trackConfigs, isPlaying, timerConfig, timerStartTime,
                                    timerRunnable, transportState, expiryCount>>
    /\ lastEvents' = << >>
    /\ UNCHANGED <<platform, peer, sceneLoad, bridgeIsInitialized, emitterSubscribed, call, scenes, eventListeners, invocations, isInitialized, masterVolume, loading, now, running, tick, playingAtPause>>

\* a playing node moves through its looping buffer
IOSPlaybackProgress(t) ==
    /\ platform = "ios"
    /\ t \in DOMAIN players
    /\ players[t].playing
    /\ players' = [players EXCEPT ![t].pos = (@ + 1) % LoopLen]
    /\ lastOp' = Op("other", "", FZero, TRUE)
    /\ lastEvents' = << >>
    /\ UNCHANGED <<platform, peer, sceneLoad, bridgeIsInitialized, emitterSubscribed, call, scenes, eventListeners, invocations, isInitialized, isPlaying, masterVolume, trackConfigs, loading, now>>
    /\ UNCHANGED timerVars
    /\ UNCHANGED ghostVars

IOSSaveScene(sceneName) ==
    /\ platform = "ios"
    /\ \E sceneId \in SceneIds \ DOMAIN scenes :
          /\ scenes' = With(scenes, sceneId,
                            [id |-> sceneId, sceneName |-> sceneName, createdAt |-> now,
                             tracks |-> SceneTracks(trackConfigs)])
          /\ lastOp' = [Op("saveScene", sceneId, FZero, TRUE) EXCEPT !.from = sceneName]
    /\ lastEvents' = << >>
    /\ UNCHANGED <<platform, peer, sceneLoad, bridgeIsInitialized, emitterSubscribed, call, eventListeners, invocations, now>>
    /\ UNCHANGED engineVars
    /\ UNCHANGED timerVars
    /\ UNCHANGED ghostVars

\* ------------------------------------- the iOS engine as the peer of the Android one
\* The methods of the Swift class on the record e of its fields; the clock is shared.
PeerInitialize(e) == [e EXCEPT !.isInitialized = TRUE]

PeerAddTrack(e, t) ==
    IF ~e.isInitialized THEN e ELSE [e EXCEPT !.loading = @ \cup {t}]

PeerAddTrackLoaded(e, t) ==
    [e EXCEPT !.loading = @ \ {t},
              !.players = With(@, t, NewPlayerNode),
              !.trackConfigs = With(@, t, NewTrackConfig)]

PeerSetVolume(e, t, volume) ==
    IF t \notin DOMAIN e.players
    THEN e
    ELSE [e EXCEPT !.players[t].volume = IOSClampVolume(volume),
                   !.trackConfigs[t].volume = IOSClampVolume(volume)]

PeerSetPanning(e, t, pan) ==
    IF t \notin DOMAIN e.players
    THEN e
    ELSE [e EXCEPT !.players[t].pan = IOSClampPan(pan),
                   !.trackConfigs[t].pan = IOSClampPan(pan)]

PeerPlay(e) ==
    IF ~e.isInitialized
    THEN e
    ELSE [e EXCEPT !.players = IOSPlayPlayers(e.players, e.trackConfigs),
                   !.trackConfigs = IOSPlayConfigs(e.players, e.trackConfigs),
                   !.isPlaying = TRUE]

PeerPause(e) ==
    [e EXCEPT !.players = IOSPausePlayers(@),
              !.trackConfigs = IOSPauseConfigs(@),
              !.isPlaying = FALSE]

PeerCancelTimer(e) ==
    LET c == IOSCancelTimer(e.queue, e.timerRunnable)
    IN  [e EXCEPT !.queue = c.queue, !.timerRunnable = c.timerRunnable,
                  !.timerConfig = c.timerConfig, !.timerStartTime = c.timerStartTime]

PeerStop(e) ==
    [PeerCancelTimer(e) EXCEPT !.players = IOSStopPlayers(@),
                               !.trackConfigs = IOSStopConfigs(@),
                               !.isPlaying = FALSE]

PeerSetTimer(e, duration, fadeOut, fadeOutDuration) ==
    LET c == PeerCancelTimer(e)
        free == RunnableIds \ DOMAIN c.queue
        r == CHOOSE x \in free : \A y \in free : x <= y
    IN  [c EXCEPT !.timerConfig = <<IOSTimerRecord(duration, fadeOut, fadeOutDuration)>>,
                  !.timerStartTime = now,
                  !.timerRunnable = r,
                  !.queue = With(c.queue, r, now + TickPeriod)]

\* the repeating Timer r fires: handleTimerTick()
PeerTimerFire(e, r) ==
    IF e.timerConfig = NullConfig
    THEN [e EXCEPT !.queue = With(@, r, now + TickPeriod)]
    ELSE LET cfg == e.timerConfig[1]
             remainingTime == FSub(cfg.duration, Frac(now - e.timerStartTime, 1))
         IN  IF FLe(remainingTime, FZero)
             THEN PeerStop(PeerCancelTimer(e))
             ELSE IF cfg.fadeOut /\ FLe(remainingTime, cfg.fadeOutDuration)
                  THEN [e EXCEPT !.players =
                                     IOSFadePlayers(@, IOSFadeTarget(remainingTime,
                                                                      cfg.fadeOutDuration)),
                                 !.queue = With(@, r, now + TickPeriod)]
                  ELSE [e EXCEPT !.queue = With(@, r, now + TickPeriod)]

\* ---- the two engines given the same calls
BothInitialize == AndroidInitialize /\ peer' = PeerInitialize(peer)
BothAddTrack(t) == AndroidAddTrack(t) /\ peer' = PeerAddTrack(peer, t)
\* the load of the track completes in both engines
BothAddTrackLoaded(t) ==
    /\ t \in peer.loading
    /\ AndroidAddTrackLoaded(t)
    /\ peer' = PeerAddTrackLoaded(peer, t)
BothSetVolume(t, volume) == AndroidSetVolume(t, volume) /\ peer' = PeerSetVolume(peer, t, volume)
BothSetPanning(t, pan) == AndroidSetPanning(t, pan) /\ peer' = PeerSetPanning(peer, t, pan)
BothPlay == AndroidPlay /\ peer' = PeerPlay(peer)
BothPause == AndroidPause /\ peer' = PeerPause(peer)
BothStop == AndroidStop /\ peer' = PeerStop(peer)
BothSetTimer(duration, fadeOut, fadeOutDuration) ==
    /\ AndroidSetTimer(duration, fadeOut, fadeOutDuration)
    /\ peer' = PeerSetTimer(peer, duration, fadeOut, fadeOutDuration)

\* a Timer of the iOS engine that is due fires; the Android engine does nothing
PeerTick(r) ==
    /\ r \in DOMAIN peer.queue
    /\ peer.queue[r] <= now
    /\ peer' = PeerTimerFire(peer, r)
    /\ UNCHANGED <<platform, sceneLoad, bridgeIsInitialized, emitterSubscribed, call, scenes, eventListeners, invocations, now, lastOp, lastEvents>>
    /\ UNCHANGED engineVars
    /\ UNCHANGED timerVars
    /\ UNCHANGED ghostVars

\* ================================================= the bridge (NativeAudioBridge)
\* the methods the native modules export to JavaScript
NativeMethods ==
    {"initialize", "addTrack", "setVolume", "setPanning", "play", "pause", "stop",
     "setTimer", "saveScene"}

\* NativeAudioBridge.cancelTimer(): calls the native method when there is one,
\* and resolves true otherwise
BridgeCancelTimer ==
    /\ IF "cancelTimer" \in NativeMethods
       THEN LET c == CancelTimer(queue, timerRunnable)
            IN  /\ queue' = c.queue
                /\ timerRunnable' = c.timerRunnable
                /\ timerConfig' = c.timerConfig
                /\ timerStartTime' = c.timerStartTime
                /\ fadeGain' = << >>
       ELSE UNCHANGED <<queue, timerRunnable, timerConfig, timerStartTime, fadeGain>>
    /\ lastOp' = Op("cancelTimer", "", FZero, TRUE)
    /\ lastEvents' = << >>
    /\ UNCHANGED <<platform, peer, sceneLoad, bridgeIsInitialized, emitterSubscribed, call, scenes, eventListeners, invocations, now, running, tick>>
    /\ UNCHANGED engineVars
    /\ UNCHANGED <<transportState, playingAtPause, expiryCount>>

\* NativeAudioBridge.getRemainingTime(): the value of the native method when there is
\* one, and 0 otherwise; lastOp.arg is the number of minutes returned
BridgeGetRemainingTime ==
    /\ "getRemainingTime" \notin NativeMethods
    /\ lastOp' = Op("getRemainingTime", "", FZero, TRUE)
    /\ lastEvents' = << >>
    /\ UNCHANGED <<platform, peer, sceneLoad, bridgeIsInitialized, emitterSubscribed, call, scenes, eventListeners, invocations, now>>
    /\ UNCHANGED engineVars
    /\ UNCHANGED timerVars
    /\ UNCHANGED ghostVars

\* the native events setupEventListeners() subscribes to
NativeEvents ==
    {"onInitialized", "onTrackAdded", "onPlaybackStarted", "onPlaybackPaused",
     "onPlaybackStopped", "onTimerExpired", "onError"}

\* the type AudioEngineEvent
AudioEngineEvents ==
    {"initialized", "trackAdded", "trackRemoved", "playbackStarted",
     "playbackPaused", "playbackStopped", "volumeChanged", "panningChanged",
     "timerExpired", "sceneLoaded", "error"}

\* the characters of the event names
Spelling ==
    [onInitialized |->
        <<"o", "n", "I", "n", "i", "t", "i", "a", "l", "i", "z", "e", "d">>,
     onTrackAdded |->
        <<"o", "n", "T", "r", "a", "c", "k", "A", "d", "d", "e", "d">>,
     onPlaybackStarted |->
        <<"o", "n", "P", "l", "a", "y", "b", "a", "c", "k", "S", "t", "a", "r", "t", "e", "d">>,
     onPlaybackPaused |->
        <<"o", "n", "P", "l", "a", "y", "b", "a", "c", "k", "P", "a", "u", "s", "e", "d">>,
     onPlaybackStopped |->
        <<"o", "n", "P", "l", "a", "y", "b", "a", "c", "k", "S", "t", "o", "p", "p", "e", "d">>,
     onTimerExpired |->
        <<"o", "n", "T", "i", "m", "e", "r", "E", "x", "p", "i", "r", "e", "d">>,
     onError |->
        <<"o", "n", "E", "r", "r", "o", "r">>,
     initialized |->
        <<"i", "n", "i", "t", "i", "a", "l", "i", "z", "e", "d">>,
     trackAdded |->
        <<"t", "r", "a", "c", "k", "A", "d", "d", "e", "d">>,
     trackRemoved |->
        <<"t", "r", "a", "c", "k", "R", "e", "m", "o", "v", "e", "d">>,
     playbackStarted |->
        <<"p", "l", "a", "y", "b", "a", "c", "k", "S", "t", "a", "r", "t", "e", "d">>,
     playbackPaused |->
        <<"p", "l", "a", "y", "b", "a", "c", "k", "P", "a", "u", "s", "e", "d">>,
     playbackStopped |->
        <<"p", "l", "a", "y", "b", "a", "c", "k", "S", "t", "o", "p", "p", "e", "d">>,
     volumeChanged |->
        <<"v", "o", "l", "u", "m", "e", "C", "h", "a", "n", "g", "e", "d">>,
     panningChanged |->
        <<"p", "a", "n", "n", "i", "n", "g", "C", "h", "a", "n", "g", "e", "d">>,
     timerExpired |->
        <<"t", "i", "m", "e", "r", "E", "x", "p", "i", "r", "e", "d">>,
     sceneLoaded |->
        <<"s", "c", "e", "n", "e", "L", "o", "a", "d", "e", "d">>,
     error |->
        <<"e", "r", "r", "o", "r">>]

\* String.prototype.toLowerCase on the letters A-Z
UpperCase ==
    [A |-> "a", B |-> "b", C |-> "c", D |-> "d", E |-> "e", F |-> "f",
     G |-> "g", H |-> "h", I |-> "i", J |-> "j", K |-> "k", L |-> "l",
     M |-> "m", N |-> "n", O |-> "o", P |-> "p", Q |-> "q", R |-> "r",
     S |-> "s", T |-> "t", U |-> "u", V |-> "v", W |-> "w", X |-> "x",
     Y |-> "y", Z |-> "z"]
ToLowerCase(str) ==
    [i \in DOMAIN str |-> IF str[i] \in DOMAIN UpperCase THEN UpperCase[str[i]] ELSE str[i]]
\* String.prototype.substring(start)
Substring(str, start) == SubSeq(str, start + 1, Len(str))

\* the name the handler of a native event passes to emitEvent
HandlerEventCamelCase(eventName) ==
    LET rest == Substring(Spelling[eventName], 2)
    IN  [i \in DOMAIN rest |-> IF i = 1 THEN ToLowerCase(rest)[i] ELSE rest[i]]
HandlerEvent(eventName) == ToLowerCase(Substring(Spelling[eventName], 2))

\* the listeners that throw whenever they are called
ThrowingListeners == {"l1"}
ListenerThrows(l) == l \in ThrowingListeners

\* one iteration of the forEach in emitEvent(): the call of the listener in its
\* try/catch, whether the listener threw and whether the exception leaves the iteration
CallListenerUncaught(l) == [threw |-> ListenerThrows(l), escaped |-> ListenerThrows(l)]
CallListener(l) == [threw |-> ListenerThrows(l), escaped |-> FALSE]

\* the forEach of emitEvent() over a Set of listeners: the listeners called, those that
\* threw, and whether an exception ended the loop
RECURSIVE ForEachListener(_)
ForEachListener(todo) ==
    IF todo = {}
    THEN [called |-> {}, threw |-> {}, escaped |-> FALSE]
    ELSE LET l == CHOOSE x \in todo : TRUE
             c == CallListener(l)
             rest == ForEachListener(todo \ {l})
         IN  IF c.escaped
             THEN [called |-> {l}, threw |-> {l}, escaped |-> TRUE]
             ELSE [called |-> {l} \cup rest.called,
                   threw |-> (IF c.threw THEN {l} ELSE {}) \cup rest.threw,
                   escaped |-> rest.escaped]

\* this.eventListeners.get(event)
GetListeners(listeners, event) ==
    UNION {listeners[k] : k \in {x \in DOMAIN listeners : Spelling[x] = event}}

\* emitEvent(event): the listeners it calls, each once
EmitEvent(listeners, event) == ForEachListener(GetListeners(listeners, event)).called

\* the record of one emitEvent(event, {code}) of the bridge itself
Emitted(event, code) ==
    LET e == ForEachListener(GetListeners(eventListeners, Spelling[event]))
    IN  [event |-> event, name |-> Spelling[event], listeners |-> e.called,
         threw |-> e.threw, escaped |-> e.escaped, code |-> code]

\* the record of one native event arriving at the emitter
Forwarded(eventName) ==
    LET e == ForEachListener(IF emitterSubscribed /\ eventName \in NativeEvents
                             THEN GetListeners(eventListeners, HandlerEvent(eventName))
                             ELSE {})
    IN  [event |-> eventName,
         name |-> IF eventName \in NativeEvents THEN HandlerEvent(eventName) ELSE << >>,
         listeners |-> e.called, threw |-> e.threw, escaped |-> e.escaped, code |-> ""]

AddEventListener(event, listener) ==
    /\ eventListeners' = With(eventListeners, event,
                              (IF event \in DOMAIN eventListeners
                               THEN eventListeners[event] ELSE {}) \cup {listener})
    /\ lastOp' = Op("other", "", FZero, TRUE)
    /\ UNCHANGED <<platform, peer, sceneLoad, bridgeIsInitialized, emitterSubscribed, call, scenes, now, lastEvents, invocations>>
    /\ UNCHANGED engineVars
    /\ UNCHANGED timerVars
    /\ UNCHANGED ghostVars

RemoveEventListener(event, listener) ==
    /\ eventListeners' =
          IF event \notin DOMAIN eventListeners
          THEN eventListeners
          ELSE IF eventListeners[event] \ {listener} = {}
               THEN Without(eventListeners, event)
               ELSE [eventListeners EXCEPT ![event] = @ \ {listener}]
    /\ lastOp' = Op("other", "", FZero, TRUE)
    /\ UNCHANGED <<platform, peer, sceneLoad, bridgeIsInitialized, emitterSubscribed, call, scenes, now, lastEvents, invocations>>
    /\ UNCHANGED engineVars
    /\ UNCHANGED timerVars
    /\ UNCHANGED ghostVars

\* the handlers registered by setupEventListeners() run for the native events sent
DeliverEvents ==
    /\ lastEvents # << >>
    /\ invocations' = [i \in DOMAIN lastEvents |-> Forwarded(lastEvents[i])]
    /\ lastEvents' = << >>
    /\ lastOp' = Op("deliver", "", FZero, TRUE)
    /\ UNCHANGED <<platform, peer, sceneLoad, bridgeIsInitialized, emitterSubscribed, call, scenes, now, eventListeners>>
    /\ UNCHANGED engineVars
    /\ UNCHANGED timerVars
    /\ UNCHANGED ghostVars

\* ----------------------------------------------- calls made through the bridge
\* validateInitialized(), validateVolume(), validatePan(): the error thrown, "" for none
ValidateInitialized == IF bridgeIsInitialized THEN "" ELSE "ENGINE_NOT_INITIALIZED"
ValidateVolumeNoCeiling(volume) ==
    IF FLt(volume, FZero) THEN "INVALID_PARAMETER" ELSE ""
ValidateVolume(volume) ==
    IF FLt(volume, FZero) \/ FLt(FOne, volume) THEN "INVALID_PARAMETER" ELSE ""
ValidatePan(pan) ==
    IF FLt(pan, Frac(-1, 1)) \/ FLt(FOne, pan) THEN "INVALID_PARAMETER" ELSE ""
FirstError(a, b) == IF a # "" THEN a ELSE b

Pending(method, id, arg) ==
    [method |-> method, id |-> id, arg |-> arg, state |-> "pending", value |-> FALSE, error |-> ""]
Rejected(method, id, arg, error) ==
    [method |-> method, id |-> id, arg |-> arg, state |-> "rejected", value |-> FALSE, error |-> error]
Resolved(method, id, arg, value) ==
    [method |-> method, id |-> id, arg |-> arg, state |-> "resolved", value |-> value, error |-> ""]
\* a method whose validation is outside its try block
Validated(method, id, arg, error) ==
    IF error = "" THEN Pending(method, id, arg) ELSE Rejected(method, id, arg, error)

\* a bridge method up to its await of the native call, or to the throw of its validation
EnterCall(c) ==
    /\ call.state # "pending"
    /\ call' = c
    /\ invocations' = << >>
    /\ lastOp' = [op |-> "call", id |-> c.id, arg |-> c.arg, ok |-> c.state = "pending",
                  from |-> c.method]
    /\ UNCHANGED <<platform, peer, bridgeIsInitialized, emitterSubscribed, scenes, now, lastEvents, eventListeners>>
    /\ UNCHANGED engineVars
    /\ UNCHANGED timerVars
    /\ UNCHANGED ghostVars

\* a method called by the application
BridgeEnter(c) == EnterCall(c) /\ UNCHANGED sceneLoad

BridgeInitialize == BridgeEnter(Pending("initialize", "", FZero))
BridgeAddTrack(t) == BridgeEnter(Validated("addTrack", t, FZero, ValidateInitialized))
\* removeTrack(): no native removeTrack, so this.setVolume(trackId, 0) inside the try
BridgeRemoveTrack(t) ==
    /\ "removeTrack" \notin NativeMethods
    /\ BridgeEnter(IF ValidateInitialized = ""
                   THEN Pending("removeTrack", t, FZero)
                   ELSE Resolved("removeTrack", t, FZero, FALSE))
BridgeSetVolume(t, volume) ==
    BridgeEnter(Validated("setVolume", t, volume,
                          FirstError(ValidateInitialized, ValidateVolume(volume))))
BridgeSetPanning(t, pan) ==
    BridgeEnter(Validated("setPanning", t, pan,
                          FirstError(ValidateInitialized, ValidatePan(pan))))
\* setMasterVolume(): no native setMasterVolume, so it resolves true after validation
BridgeSetMasterVolume(volume) ==
    /\ "setMasterVolume" \notin NativeMethods
    /\ BridgeEnter(IF FirstError(ValidateInitialized, ValidateVolume(volume)) = ""
                   THEN Resolved("setMasterVolume", "", volume, TRUE)
                   ELSE Rejected("setMasterVolume", "", volume,
                                 FirstError(ValidateInitialized, ValidateVolume(volume))))
BridgePlay == BridgeEnter(Validated("play", "", FZero, ValidateInitialized))
BridgePause == BridgeEnter(Validated("pause", "", FZero, ValidateInitialized))
BridgeStop == BridgeEnter(Validated("stop", "", FZero, ValidateInitialized))
BridgeSetTimer == BridgeEnter(Validated("setTimer", "", FZero, ValidateInitialized))
BridgeSaveScene == BridgeEnter(Validated("saveScene", "", FZero, ValidateInitialized))
\* loadScene(sceneId) with a string: no native loadScene, so it resolves false
BridgeLoadScene(sceneId) ==
    /\ "loadScene" \notin NativeMethods
    /\ BridgeEnter(IF ValidateInitialized = ""
                   THEN Resolved("loadScene", sceneId, FZero, FALSE)
                   ELSE Rejected("loadScene", sceneId, FZero, ValidateInitialized))

\* the event a method emits itself after its native call resolved
SuccessEvent ==
    [play |-> "playbackStarted", pause |-> "playbackPaused", stop |-> "playbackStopped",
     setVolume |-> "volumeChanged", removeTrack |-> "volumeChanged",
     setPanning |-> "panningChanged"]
\* the code of the error event a method's catch block emits
ErrorCode ==
    [initialize |-> "ENGINE_NOT_INITIALIZED", addTrack |-> "TRACK_NOT_FOUND",
     setVolume |-> "TRACK_NOT_FOUND", removeTrack |-> "TRACK_NOT_FOUND",
     setPanning |-> "TRACK_NOT_FOUND", play |-> "PLAYBACK_FAILED"]
\* methods whose catch block rethrows
Rethrows == {"saveScene"}

\* what a method does after its await: ok tells whether the native promise resolved
\* (with a true value)
BridgeSettle(method, ok) ==
    LET success == IF ok /\ method \in DOMAIN SuccessEvent
                   THEN <<Emitted(SuccessEvent[method], "")>> ELSE << >>
        caught == ~ok \/ (success # << >> /\ success[1].escaped)
        failure == IF caught /\ method \in DOMAIN ErrorCode
                   THEN <<Emitted("error", ErrorCode[method])>> ELSE << >>
        thrown == caught /\ (method \in Rethrows \/ (failure # << >> /\ failure[1].escaped))
    IN  [emitted |-> success \o failure,
         state |-> IF thrown THEN "rejected" ELSE "resolved",
         value |-> ~caught]

\* whether the native call of the pending bridge call resolved
NativeResolvedAlways == TRUE
NativeResolved ==
    IF call.method = "addTrack" THEN lastEvents = <<"onTrackAdded">> ELSE lastOp.ok

\* the native call of the pending bridge call has settled: the rest of the method
\* runs, and the events the native call sent reach the emitter
BridgeReturn ==
    /\ call.state = "pending"
    /\ lastOp.op # "call"
    /\ call.method = "addTrack" => call.id \notin loading
    /\ LET r == BridgeSettle(call.method, NativeResolved)
       IN  /\ call' = [call EXCEPT !.state = r.state, !.value = r.value,
                                   !.id = IF call.method = "saveScene" THEN lastOp.id ELSE @,
                                   !.error = IF r.state = "rejected" THEN "NATIVE" ELSE ""]
           /\ invocations' = r.emitted \o [i \in DOMAIN lastEvents |-> Forwarded(lastEvents[i])]
           /\ bridgeIsInitialized' =
                 IF call.method = "initialize" THEN r.value ELSE bridgeIsInitialized
           /\ lastOp' = [op |-> "return", id |-> call.id, arg |-> call.arg, ok |-> r.value,
                         from |-> call.method]
    /\ lastEvents' = << >>
    /\ UNCHANGED <<platform, peer, sceneLoad, emitterSubscribed, scenes, now, eventListeners>>
    /\ UNCHANGED engineVars
    /\ UNCHANGED timerVars
    /\ UNCHANGED ghostVars

\* getTracks(): no native getTracks, so the empty array
GetTracks == IF "getTracks" \in NativeMethods THEN DOMAIN trackConfigs ELSE {}

\* loadScene(scene) with a scene object, up to the first await that reaches a native
\* call: validateInitialized(), then loadSceneFromObject() with its getTracks() and
\* its loop of removeTrack() over the tracks getTracks() returned
BridgeLoadSceneObject(scene) ==
    /\ sceneLoad.state = "none"
    /\ GetTracks = {}
    /\ IF ValidateInitialized = ""
       THEN /\ EnterCall([Pending("loadScene", scene.id, FZero) EXCEPT !.state = "entered"])
            /\ sceneLoad' = [state |-> "running", id |-> scene.id, tracks |-> scene.tracks,
                             step |-> "addTrack"]
       ELSE /\ EnterCall(Rejected("loadScene", scene.id, FZero, ValidateInitialized))
            /\ UNCHANGED sceneLoad

\* loadSceneFromObject() returns: sceneLoaded is emitted and true returned at the end of
\* the try block, false is returned by the catch block
LoadSceneReturn(value) ==
    /\ call.state # "pending"
    /\ call' = Resolved("loadScene", sceneLoad.id, FZero, value)
    /\ invocations' = IF value THEN <<Emitted("sceneLoaded", "")>> ELSE << >>
    /\ lastOp' = [op |-> "return", id |-> sceneLoad.id, arg |-> FZero, ok |-> value,
                  from |-> "loadScene"]
    /\ sceneLoad' = NoSceneLoad
    /\ UNCHANGED <<platform, peer, bridgeIsInitialized, emitterSubscribed, scenes, now, lastEvents, eventListeners>>
    /\ UNCHANGED engineVars
    /\ UNCHANGED timerVars
    /\ UNCHANGED ghostVars

\* the loop of loadSceneFromObject() moves on to the next track of the scene
LoadSceneNextTrack ==
    /\ call.state # "pending"
    /\ sceneLoad' = [sceneLoad EXCEPT !.tracks = Tail(@), !.step = "addTrack"]
    /\ lastOp' = Op("other", "", FZero, TRUE)
    /\ UNCHANGED <<platform, peer, bridgeIsInitialized, emitterSubscribed, call, scenes, now, lastEvents, eventListeners, invocations>>
    /\ UNCHANGED engineVars
    /\ UNCHANGED timerVars
    /\ UNCHANGED ghostVars

\* loadSceneFromObject() between two of its awaits: for each track of the scene
\* addTrack(), and when that succeeded setVolume() and setPanning(); an exception
\* thrown by one of them is caught by the catch block
LoadSceneStep ==
    /\ sceneLoad.state = "running"
    /\ call.state # "pending"
    /\ LET track == Head(sceneLoad.tracks)
       IN  CASE sceneLoad.step = "addTrack" /\ sceneLoad.tracks = << >> ->
                    LoadSceneReturn(TRUE)
             [] sceneLoad.step = "addTrack" /\ sceneLoad.tracks # << >> ->
                    /\ EnterCall(Validated("addTrack", track.id, FZero, ValidateInitialized))
                    /\ sceneLoad' = [sceneLoad EXCEPT !.step = "setVolume"]
             [] sceneLoad.step = "setVolume" ->
                    IF call.state = "rejected"
                    THEN LoadSceneReturn(FALSE)
                    ELSE IF call.value
                         THEN /\ EnterCall(Validated("setVolume", track.id, track.volume,
                                             FirstError(ValidateInitialized,
                                                        ValidateVolume(track.volume))))
                              /\ sceneLoad' = [sceneLoad EXCEPT !.step = "setPanning"]
                         ELSE LoadSceneNextTrack
             [] sceneLoad.step = "setPanning" ->
                    IF call.state = "rejected"
                    THEN LoadSceneReturn(FALSE)
                    ELSE /\ EnterCall(Validated("setPanning", track.id, track.pan,
                                        FirstError(ValidateInitialized,
                                                   ValidatePan(track.pan))))
                         /\ sceneLoad' = [sceneLoad EXCEPT !.step = "next"]
             [] sceneLoad.step = "next" ->
                    IF call.state = "rejected"
                    THEN LoadSceneReturn(FALSE)
                    ELSE LoadSceneNextTrack

\* no loadSceneFromObject() is executing
NoSceneLoading == sceneLoad.state = "none"

\* destroy(): no native destroy, so only the listeners are cleaned up
BridgeDestroy ==
    /\ "destroy" \notin NativeMethods
    /\ call.state # "pending"
    /\ emitterSubscribed' = FALSE
    /\ eventListeners' = << >>
    /\ bridgeIsInitialized' = FALSE
    /\ call' = Resolved("destroy", "", FZero, TRUE)
    /\ invocations' = << >>
    /\ lastOp' = [op |-> "return", id |-> "", arg |-> FZero, ok |-> TRUE, from |-> "destroy"]
    /\ UNCHANGED <<platform, peer, sceneLoad, scenes, now, lastEvents>>
    /\ UNCHANGED engineVars
    /\ UNCHANGED timerVars
    /\ UNCHANGED ghostVars

\* the application is started again: a new bridge and a new native module, as after
\* construction; the stored scenes are kept
Relaunch ==
    /\ isInitialized' = FALSE
    /\ isPlaying' = FALSE
    /\ masterVolume' = FOne
    /\ players' = << >>
    /\ trackConfigs' = << >>
    /\ loading' = {}
    /\ timerConfig' = NullConfig
    /\ timerStartTime' = 0
    /\ timerRunnable' = NullRunnable
    /\ queue' = << >>
    /\ running' = 0
    /\ tick' = TickIdle
    /\ lastOp' = Op("relaunch", "", FZero, TRUE)
    /\ lastEvents' = << >>
    /\ eventListeners' = << >>
    /\ invocations' = << >>
    /\ bridgeIsInitialized' = FALSE
    /\ emitterSubscribed' = TRUE
    /\ call' = NoCall
    /\ sceneLoad' = NoSceneLoad
    /\ transportState' = "Idle"
    /\ playingAtPause' = {}
    /\ expiryCount' = 0
    /\ fadeGain' = << >>
    /\ UNCHANGED <<platform, peer, scenes, now>>

\* the native call a pending bridge call is waiting for is allowed to start
NativeCall(method) == call.state = "pending" /\ call.method = method /\ lastOp.op = "call"
\* no bridge call is waiting
NoneAwaited == call.state # "pending"

\* ========================================================= specifications
\* One track, every volume and pan input, the mixing and transport operations
Next ==
    \/ Initialize
    \/ \E t \in {"rain"} : AddTrack(t)
    \/ \E t \in {"rain"} : AddTrackLoaded(t)
    \/ \E t \in {"rain"} : AddTrackFailed(t)
    \/ \E t \in {"rain"}, v \in VolumeInputs : SetVolume(t, v)
    \/ \E t \in {"rain"}, p \in PanInputs : SetPanning(t, p)
    \/ Play
    \/ Pause
    \/ Stop
    \/ \E t \in {"rain"} : PlaybackProgress(t)
    \/ IOSInitialize
    \/ \E t \in {"rain"} : IOSAddTrack(t)
    \/ \E t \in {"rain"} : IOSAddTrackLoaded(t)
    \/ \E t \in {"rain"} : IOSAddTrackFailed(t)
    \/ \E t \in {"rain"}, v \in VolumeInputs : IOSSetVolume(t, v)
    \/ \E t \in {"rain"}, p \in PanInputs : IOSSetPanning(t, p)
    \/ IOSPlay
    \/ IOSPause
    \/ IOSStop
    \/ \E t \in {"rain"} : IOSPlaybackProgress(t)

Spec == Init /\ [][Next]_vars

\* Two tracks, coarse volumes, the transport operations
NextTracks ==
    \/ Initialize
    \/ \E t \in TrackIds : AddTrack(t)
    \/ \E t \in TrackIds : AddTrackLoaded(t)
    \/ \E t \in TrackIds : AddTrackFailed(t)
    \/ \E t \in TrackIds, v \in CoarseVolumeInputs : SetVolume(t, v)
    \/ Play
    \/ Pause
    \/ Stop
    \/ \E t \in TrackIds : PlaybackProgress(t)
    \/ IOSInitialize
    \/ \E t \in TrackIds : IOSAddTrack(t)
    \/ \E t \in TrackIds : IOSAddTrackLoaded(t)
    \/ \E t \in TrackIds : IOSAddTrackFailed(t)
    \/ \E t \in TrackIds, v \in CoarseVolumeInputs : IOSSetVolume(t, v)
    \/ IOSPlay
    \/ IOSPause
    \/ IOSStop
    \/ \E t \in TrackIds : IOSPlaybackProgress(t)

SpecTracks == Init /\ [][NextTracks]_vars

\* One track, coarse volumes, every timer setting, the clock and the timer callbacks
NextTimer ==
    \/ Initialize
    \/ \E t \in {"rain"} : AddTrack(t)
    \/ \E t \in {"rain"} : AddTrackLoaded(t)
    \/ \E t \in {"rain"}, v \in CoarseVolumeInputs : SetVolume(t, v)
    \/ Play
    \/ Pause
    \/ Stop
    \/ \E d \in DurationInputs, f \in BOOLEAN, fd \in FadeInputs : SetTimer(d, f, fd)
    \/ \E r \in RunnableIds : RunTick(r)
    \/ RunRepost
    \/ IOSInitialize
    \/ \E t \in {"rain"} : IOSAddTrack(t)
    \/ \E t \in {"rain"} : IOSAddTrackLoaded(t)
    \/ \E t \in {"rain"}, v \in CoarseVolumeInputs : IOSSetVolume(t, v)
    \/ IOSPlay
    \/ IOSPause
    \/ IOSStop
    \/ \E d \in DurationInputs, f \in BOOLEAN, fd \in FadeInputs : IOSSetTimer(d, f, fd)
    \/ \E r \in RunnableIds : IOSTimerFire(r)
    \/ Advance(TimerClockSteps)

SpecTimer == Init /\ [][NextTimer]_vars

\* The Android engine with handleTimerTick() interleaved with the callers' thread:
\* one track, a timer whose fade window is open from the first tick
InitAndroid == Init /\ platform = "android"

RaceDurations == {[num |-> 1, den |-> 60]}
RaceFades == {[num |-> 2, den |-> 60]}

NextRace ==
    \/ Initialize
    \/ \E t \in {"rain"} : AddTrack(t)
    \/ \E t \in {"rain"} : AddTrackLoaded(t)
    \/ \E t \in {"rain"}, v \in CoarseVolumeInputs : SetVolume(t, v)
    \/ Play
    \/ Stop
    \/ \E d \in RaceDurations, f \in BOOLEAN, fd \in RaceFades : SetTimer(d, f, fd)
    \/ \E r \in RunnableIds : TickEnter(r)
    \/ \E t \in {"rain"} : TickFadeCheck(t)
    \/ TickFadeApply
    \/ RunRepost
    \/ Advance(RaceClockSteps)

SpecRace == InitAndroid /\ [][NextRace]_vars

\* The Android engine with timers whose fade window spans several ticks: one track
FadeSpecDurations == {[num |-> 1, den |-> 60], [num |-> 2, den |-> 60]}
FadeSpecFades == {[num |-> 2, den |-> 60]}

NextFade ==
    \/ Initialize
    \/ \E t \in {"rain"} : AddTrack(t)
    \/ \E t \in {"rain"} : AddTrackLoaded(t)
    \/ \E t \in {"rain"}, v \in CoarseVolumeInputs : SetVolume(t, v)
    \/ Play
    \/ Stop
    \/ \E d \in FadeSpecDurations, f \in BOOLEAN, fd \in FadeSpecFades : SetTimer(d, f, fd)
    \/ BridgeCancelTimer
    \/ \E r \in RunnableIds : RunTick(r)
    \/ RunRepost
    \/ Advance(FadeClockSteps)

SpecFade == InitAndroid /\ [][NextFade]_vars

\* Both engines with a timer of positive duration that ends within the clock's
\* range, the main looper and the run loop delivering every due callback, and a
\* callback taking less than one step of the clock
LiveDurations == {[num |-> 1, den |-> 60]}
LiveFades == {[num |-> 1, den |-> 60]}
EndsInRange(duration) == now + ToMillis(duration) <= LiveClockSteps * TickPeriod
AdvanceBetweenCallbacks == running = 0 /\ Advance(LiveClockSteps)

NextLive ==
    \/ Initialize
    \/ \E t \in {"rain"} : AddTrack(t)
    \/ \E t \in {"rain"} : AddTrackLoaded(t)
    \/ Play
    \/ Pause
    \/ Stop
    \/ \E d \in LiveDurations, f \in BOOLEAN, fd \in LiveFades :
          EndsInRange(d) /\ SetTimer(d, f, fd)
    \/ \E r \in RunnableIds : RunTick(r)
    \/ RunRepost
    \/ IOSInitialize
    \/ \E t \in {"rain"} : IOSAddTrack(t)
    \/ \E t \in {"rain"} : IOSAddTrackLoaded(t)
    \/ IOSPlay
    \/ IOSPause
    \/ IOSStop
    \/ \E d \in LiveDurations, f \in BOOLEAN, fd \in LiveFades :
          EndsInRange(d) /\ IOSSetTimer(d, f, fd)
    \/ \E r \in RunnableIds : IOSTimerFire(r)
    \/ AdvanceBetweenCallbacks

\* the next step of a due timer callback
Callback ==
    \/ \E r \in RunnableIds : RunTick(r)
    \/ RunRepost
    \/ \E r \in RunnableIds : IOSTimerFire(r)

SpecLive ==
    /\ Init
    /\ [][NextLive]_vars
    /\ SF_vars(AdvanceBetweenCallbacks)
    /\ WF_vars(Callback)

\* The Android engine behind the bridge's event forwarding: one track, one timer
\* setting, two listeners and three events to register them under
Registrations ==
    {<<"timerExpired", "l1">>, <<"timerExpired", "l2">>,
     <<"playbackStopped", "l1">>, <<"initialized", "l1">>}

NextBridge ==
    \/ Initialize
    \/ Play
    \/ \E d \in LiveDurations, fd \in LiveFades : SetTimer(d, FALSE, fd)
    \/ \E r \in RunnableIds : RunTick(r)
    \/ RunRepost
    \/ \E g \in Registrations : AddEventListener(g[1], g[2])
    \/ \E g \in Registrations : RemoveEventListener(g[1], g[2])
    \/ DeliverEvents
    \/ Advance(BridgeClockSteps)

SpecBridge == InitAndroid /\ [][NextBridge]_vars

\* The Android engine driven through the bridge: one track, transport calls and
\* listeners; every native call is made by a bridge method and awaited by it
CallRegistrations ==
    {<<"playbackStarted", "l1">>, <<"playbackStarted", "l2">>,
     <<"playbackPaused", "l2">>, <<"playbackStopped", "l2">>}
CallTracks == {"rain"}
\* the ids setVolume, setPanning and removeTrack are called with: "ocean" is never added
CallIds == {"rain", "ocean"}
CallVolumes == {FZero, FOne, Frac(3, 2)}
CallPans == {FOne}

NextCalls ==
    \/ BridgeInitialize
    \/ NativeCall("initialize") /\ Initialize
    \/ \E t \in CallTracks : BridgeAddTrack(t)
    \/ NativeCall("addTrack") /\ AddTrack(call.id)
    \/ call.state = "pending" /\ call.method = "addTrack" /\ AddTrackLoaded(call.id)
    \/ call.state = "pending" /\ call.method = "addTrack" /\ AddTrackFailed(call.id)
    \/ \E t \in CallIds, v \in CallVolumes : BridgeSetVolume(t, v)
    \/ NativeCall("setVolume") /\ SetVolume(call.id, call.arg)
    \/ \E t \in CallIds, p \in CallPans : BridgeSetPanning(t, p)
    \/ NativeCall("setPanning") /\ SetPanning(call.id, call.arg)
    \/ \E t \in CallIds : BridgeRemoveTrack(t)
    \/ NativeCall("removeTrack") /\ SetVolume(call.id, FZero)
    \/ BridgePlay
    \/ NativeCall("play") /\ Play
    \/ NativeCall("play") /\ \E t \in CallTracks : PlayStartThrows(t, {})
    \/ BridgePause
    \/ NativeCall("pause") /\ Pause
    \/ BridgeStop
    \/ NativeCall("stop") /\ Stop
    \/ BridgeReturn
    \/ NoneAwaited /\ \E g \in CallRegistrations : AddEventListener(g[1], g[2])
    \/ NoneAwaited /\ \E g \in CallRegistrations : RemoveEventListener(g[1], g[2])

SpecCalls == InitAndroid /\ [][NextCalls]_vars

\* The Android engine and the bridge over their lifetime: initialize, one track,
\* play and stop, a timer, cancelTimer, destroy and the teardown of the module
NextLifecycle ==
    \/ BridgeInitialize
    \/ NativeCall("initialize") /\ Initialize
    \/ \E t \in CallTracks : BridgeAddTrack(t)
    \/ NativeCall("addTrack") /\ AddTrack(call.id)
    \/ call.state = "pending" /\ call.method = "addTrack" /\ AddTrackLoaded(call.id)
    \/ \E t \in CallTracks : BridgeRemoveTrack(t)
    \/ NativeCall("removeTrack") /\ SetVolume(call.id, FZero)
    \/ BridgePlay
    \/ NativeCall("play") /\ Play
    \/ BridgeStop
    \/ NativeCall("stop") /\ Stop
    \/ BridgeSetTimer
    \/ NativeCall("setTimer") /\ \E d \in LiveDurations, fd \in LiveFades : SetTimer(d, FALSE, fd)
    \/ NoneAwaited /\ BridgeCancelTimer
    \/ BridgeReturn
    \/ BridgeDestroy
    \/ NoneAwaited /\ OnCatalystInstanceDestroy
    \/ NoneAwaited /\ \E r \in RunnableIds : RunTick(r)
    \/ NoneAwaited /\ RunRepost
    \/ NoneAwaited /\ Advance(LifecycleClockSteps)

SpecLifecycle == InitAndroid /\ [][NextLifecycle]_vars

\* Both engines with saveScene: Android with one track and the first tick of a fading
\* timer (the clock stands still), iOS with two tracks, the volume of one and the pan
\* of the other being set
SceneNames == {"night"}
ScenePans == {Frac(-1, 2)}

NextScenes ==
    \/ Initialize
    \/ \E t \in {"rain"} : AddTrack(t)
    \/ \E t \in {"rain"} : AddTrackLoaded(t)
    \/ \E t \in {"rain"}, v \in CoarseVolumeInputs : SetVolume(t, v)
    \/ \E t \in {"rain"}, p \in ScenePans : SetPanning(t, p)
    \/ Play
    \/ \E d \in RaceDurations, fd \in RaceFades : SetTimer(d, TRUE, fd)
    \/ \E r \in RunnableIds : RunTick(r)
    \/ RunRepost
    \/ \E name \in SceneNames : SaveScene(name)
    \/ IOSInitialize
    \/ \E t \in TrackIds : IOSAddTrack(t)
    \/ \E t \in TrackIds : IOSAddTrackLoaded(t)
    \/ \E t \in {"rain"}, v \in CoarseVolumeInputs : IOSSetVolume(t, v)
    \/ \E t \in {"ocean"}, p \in ScenePans : IOSSetPanning(t, p)
    \/ \E name \in SceneNames : IOSSaveScene(name)

SpecScenes == Init /\ [][NextScenes]_vars

\* Saving a scene through the bridge, starting the application again and loading the
\* scene by its id (Android, one track)
NextReload ==
    \/ BridgeInitialize
    \/ NativeCall("initialize") /\ Initialize
    \/ \E t \in CallTracks : BridgeAddTrack(t)
    \/ NativeCall("addTrack") /\ AddTrack(call.id)
    \/ call.state = "pending" /\ call.method = "addTrack" /\ AddTrackLoaded(call.id)
    \/ \E t \in CallTracks, v \in CoarseVolumeInputs : BridgeSetVolume(t, v)
    \/ NativeCall("setVolume") /\ SetVolume(call.id, call.arg)
    \/ \E t \in CallTracks, p \in ScenePans : BridgeSetPanning(t, p)
    \/ NativeCall("setPanning") /\ SetPanning(call.id, call.arg)
    \/ BridgeSaveScene
    \/ NativeCall("saveScene") /\ \E name \in SceneNames : SaveScene(name)
    \/ \E sceneId \in SceneIds : BridgeLoadScene(sceneId)
    \/ BridgeReturn
    \/ Relaunch

SpecReload == InitAndroid /\ [][NextReload]_vars

\* Loading a scene object through the bridge into the Android engine, which may
\* already hold tracks and may be playing
LoadScenes ==
    {[id |-> "s1", tracks |-> <<[id |-> "rain", volume |-> FOne, pan |-> Frac(-1, 2)]>>],
     [id |-> "s2", tracks |-> <<[id |-> "ocean", volume |-> Frac(3, 2), pan |-> FZero]>>]}

NextLoad ==
    \/ NoSceneLoading /\ BridgeInitialize
    \/ NativeCall("initialize") /\ Initialize
    \/ NoSceneLoading /\ \E t \in TrackIds : BridgeAddTrack(t)
    \/ NativeCall("addTrack") /\ AddTrack(call.id)
    \/ call.state = "pending" /\ call.method = "addTrack" /\ AddTrackLoaded(call.id)
    \/ call.state = "pending" /\ call.method = "addTrack" /\ AddTrackFailed(call.id)
    \/ NoSceneLoading /\ \E t \in TrackIds, v \in CoarseVolumeInputs : BridgeSetVolume(t, v)
    \/ NativeCall("setVolume") /\ SetVolume(call.id, call.arg)
    \/ NativeCall("setPanning") /\ SetPanning(call.id, call.arg)
    \/ NoSceneLoading /\ BridgePlay
    \/ NativeCall("play") /\ Play
    \/ \E scene \in LoadScenes : BridgeLoadSceneObject(scene)
    \/ LoadSceneStep
    \/ BridgeReturn

SpecLoad == InitAndroid /\ [][NextLoad]_vars

\* The Android engine behind the bridge with one track: setVolume, setPanning and
\* setMasterVolume with arguments inside and outside their ranges, from before
\* initialize() on
ParamVolumes == {Frac(n, 2) : n \in -1..3}
ParamPans == {Frac(-3, 2), Frac(-1, 2), Frac(1, 2), Frac(3, 2)}
ParamRegistrations == {<<"volumeChanged", "l2">>, <<"panningChanged", "l2">>}

NextParams ==
    \/ BridgeInitialize
    \/ NativeCall("initialize") /\ Initialize
    \/ \E t \in CallTracks : BridgeAddTrack(t)
    \/ NativeCall("addTrack") /\ AddTrack(call.id)
    \/ call.state = "pending" /\ call.method = "addTrack" /\ AddTrackLoaded(call.id)
    \/ \E t \in CallTracks, v \in ParamVolumes : BridgeSetVolume(t, v)
    \/ NativeCall("setVolume") /\ SetVolume(call.id, call.arg)
    \/ \E t \in CallTracks, p \in ParamPans : BridgeSetPanning(t, p)
    \/ NativeCall("setPanning") /\ SetPanning(call.id, call.arg)
    \/ \E v \in ParamVolumes : BridgeSetMasterVolume(v)
    \/ BridgePlay
    \/ NativeCall("play") /\ Play
    \/ BridgeReturn
    \/ NoneAwaited /\ \E g \in ParamRegistrations : AddEventListener(g[1], g[2])

SpecParams == InitAndroid /\ [][NextParams]_vars

\* The Android timer and getRemainingTime(): a timer of one or two seconds, its ticks,
\* cancelTimer() and the clock
NextRemaining ==
    \/ Initialize
    \/ \E d \in FadeSpecDurations, fd \in FadeSpecFades : SetTimer(d, FALSE, fd)
    \/ \E r \in RunnableIds : RunTick(r)
    \/ RunRepost
    \/ Advance(LifecycleClockSteps)
    \/ BridgeCancelTimer
    \/ BridgeGetRemainingTime

SpecRemaining == InitAndroid /\ [][NextRemaining]_vars

\* The Android transport with two tracks: play(), also failing part-way, pause() and
\* stop() on the callers' thread, the expiry of a timer on the main looper
NextTransport ==
    \/ Initialize
    \/ \E t \in TrackIds : AddTrack(t)
    \/ \E t \in TrackIds : AddTrackLoaded(t)
    \/ Play
    \/ \E t \in TrackIds, before \in SUBSET TrackIds : PlayStartThrows(t, before)
    \/ Pause
    \/ Stop
    \/ \E d \in RaceDurations, fd \in RaceFades : SetTimer(d, FALSE, fd)
    \/ \E r \in RunnableIds : TickExpireEnter(r)
    \/ TickExpireFinish
    \/ RunRepost
    \/ Advance(RaceClockSteps)

SpecTransport == InitAndroid /\ [][NextTransport]_vars

\* The Android engine with two tracks whose loads complete while play() iterates
NextPublish ==
    \/ Initialize
    \/ \E t \in TrackIds : AddTrack(t)
    \/ \E t \in TrackIds : AddTrackLoaded(t)
    \/ \E t \in TrackIds, v \in CoarseVolumeInputs : SetVolume(t, v)
    \/ Play
    \/ \E t \in TrackIds, before \in SUBSET TrackIds, outcome \in PublishOutcomes :
          PlayWhilePublishing(t, before, outcome)
    \/ Pause
    \/ Stop

SpecPublish == InitAndroid /\ [][NextPublish]_vars

\* The iOS engine with a timer of three seconds whose fade window covers all of it:
\* two ticks in the window before the expiry
IOSFadeDurations == {[num |-> 3, den |-> 60]}
IOSFadeFades == {[num |-> 4, den |-> 60]}

NextIOSFade ==
    \/ IOSInitialize
    \/ \E t \in {"rain"} : IOSAddTrack(t)
    \/ \E t \in {"rain"} : IOSAddTrackLoaded(t)
    \/ \E t \in {"rain"}, v \in CoarseVolumeInputs : IOSSetVolume(t, v)
    \/ IOSPlay
    \/ IOSStop
    \/ \E d \in IOSFadeDurations, fd \in IOSFadeFades : IOSSetTimer(d, TRUE, fd)
    \/ \E r \in RunnableIds : IOSTimerFire(r)
    \/ Advance(IOSFadeClockSteps)

SpecIOSFade == Init /\ [][NextIOSFade]_vars

\* The Android and the iOS engine side by side: every call is made on both, each
\* engine runs its own timer callbacks when they are due, and the clock is shared
PairDurations == {[num |-> n, den |-> 60] : n \in 0..1}
PairFade == [num |-> 0, den |-> 60]

NextPair ==
    \/ BothInitialize
    \/ \E t \in {"rain"} : BothAddTrack(t)
    \/ \E t \in {"rain"} : BothAddTrackLoaded(t)
    \/ \E t \in {"rain"}, v \in CoarseVolumeInputs : BothSetVolume(t, v)
    \/ \E t \in {"rain"}, p \in ScenePans : BothSetPanning(t, p)
    \/ BothPlay
    \/ BothPause
    \/ BothStop
    \/ \E d \in PairDurations : BothSetTimer(d, FALSE, PairFade)
    \/ \E r \in RunnableIds : RunTick(r)
    \/ RunRepost
    \/ \E r \in RunnableIds : PeerTick(r)
    \/ Advance(PairClockSteps)

SpecPair == InitAndroid /\ [][NextPair]_vars

\* ================================================================= claims
InRange(x, lo, hi) == FLe(lo, x) /\ FLe(x, hi)
Clamped(x, lo, hi) == IF FLt(x, lo) THEN lo ELSE IF FLt(hi, x) THEN hi ELSE x
FMinusOne == Frac(-1, 1)
TrackPlaying(t) ==
    IF platform = "android" THEN PlayerIsPlaying(players[t]) ELSE players[t].playing
Occurrences(e, evs) == Cardinality({i \in DOMAIN evs : evs[i] = e})

\* C1: every stored volume lies in [0, 1] and every stored pan in [-1, 1]; in the
\* Android engine a setVolume / setPanning on an existing track stores the input
\* clamped into its range, whatever the input.
C1_StoredValuesClamped ==
    /\ \A t \in DOMAIN trackConfigs :
          /\ InRange(trackConfigs[t].volume, FZero, FOne)
          /\ InRange(trackConfigs[t].pan, FMinusOne, FOne)
    /\ (platform = "android" /\ lastOp.op = "setVolume" /\ lastOp.ok)
          => trackConfigs[lastOp.id].volume = Clamped(lastOp.arg, FZero, FOne)
    /\ (platform = "android" /\ lastOp.op = "setPanning" /\ lastOp.ok)
          => trackConfigs[lastOp.id].pan = Clamped(lastOp.arg, FMinusOne, FOne)

C1_Witness ==
    /\ platform = "android"
    /\ lastOp.op = "setVolume"
    /\ lastOp.ok
    /\ FLt(FOne, lastOp.arg)
    /\ trackConfigs[lastOp.id].volume = FOne

\* C2: right after an Android setPanning(id, p) with p in [-1, 1], on a track with
\* stored volume v under master volume m, the player's gains are
\* (v*m, v*m*(1+p)) for p < 0 and (v*m*(1-p), v*m) for p >= 0.
C2_PanLawAfterSetPanning ==
    (/\ platform = "android"
     /\ lastOp.op = "setPanning"
     /\ lastOp.ok
     /\ InRange(lastOp.arg, FMinusOne, FOne))
    => LET p == lastOp.arg
           base == FMul(trackConfigs[lastOp.id].volume, masterVolume)
           pl == players[lastOp.id]
       IN  IF FLt(p, FZero)
           THEN pl.left = base /\ pl.right = FMul(base, FAdd(FOne, p))
           ELSE pl.left = FMul(base, FSub(FOne, p)) /\ pl.right = base

C2_Witness ==
    /\ platform = "android"
    /\ lastOp.op = "setPanning"
    /\ lastOp.ok
    /\ lastOp.arg = Frac(-1, 2)
    /\ trackConfigs[lastOp.id].volume = FOne
    /\ players[lastOp.id].left = FOne
    /\ players[lastOp.id].right = Frac(1, 2)

\* C3: right after any Android setVolume or setPanning, with no timer armed, the
\* player's gains are the pan law of the stored volume, the stored pan and the
\* master volume.
C3_GainsFollowStoredPan ==
    (/\ platform = "android"
     /\ lastOp.op \in {"setVolume", "setPanning"}
     /\ lastOp.ok
     /\ timerConfig = NullConfig)
    => LET cfg == trackConfigs[lastOp.id]
           base == FMul(cfg.volume, masterVolume)
           pl == players[lastOp.id]
       IN  IF FLt(cfg.pan, FZero)
           THEN pl.left = base /\ pl.right = FMul(base, FAdd(FOne, cfg.pan))
           ELSE pl.left = FMul(base, FSub(FOne, cfg.pan)) /\ pl.right = base

\* C4: right after a successful play() made in Idle or Stopped, the engine's playing
\* flag is set and a track is playing (and reports isPlaying) exactly if its stored
\* volume is > 0.
C4_PlayStartsAudibleTracks ==
    (lastOp.op = "play" /\ lastOp.ok /\ lastOp.from \in {"Idle", "Stopped"})
    => /\ isPlaying
       /\ \A t \in DOMAIN trackConfigs :
             /\ trackConfigs[t].isPlaying <=> FLt(FZero, trackConfigs[t].volume)
             /\ TrackPlaying(t) <=> FLt(FZero, trackConfigs[t].volume)

C4_Witness ==
    /\ lastOp.op = "play"
    /\ lastOp.ok
    /\ lastOp.from = "Stopped"
    /\ \E t, u \in DOMAIN trackConfigs :
          /\ trackConfigs[t].volume = FZero
          /\ ~trackConfigs[t].isPlaying
          /\ trackConfigs[u].isPlaying

\* C5: a track that is not playing starts playing only in a successful play() step;
\* in particular no setVolume step, whatever volume it sets, starts it.
C5_OnlyPlayStarts ==
    [][\A t \in DOMAIN trackConfigs \cap DOMAIN trackConfigs' :
          (\/ ~trackConfigs[t].isPlaying /\ trackConfigs'[t].isPlaying
           \/ ~TrackPlaying(t) /\ TrackPlaying(t)')
          => (lastOp'.op = "play" /\ lastOp'.ok)]_vars

C5_Witness ==
    /\ platform = "android"
    /\ transportState = "Playing"
    /\ lastOp.op = "setVolume"
    /\ lastOp.ok
    /\ trackConfigs[lastOp.id].volume = FOne
    /\ ~trackConfigs[lastOp.id].isPlaying
    /\ ~TrackPlaying(lastOp.id)

\* C6: right after a successful play() made in Paused, the tracks playing are
\* exactly those that were playing when pause() was called.
C6_ResumeExactlyPaused ==
    (lastOp.op = "play" /\ lastOp.ok /\ lastOp.from = "Paused")
    => {t \in DOMAIN players : TrackPlaying(t)} = playingAtPause

C8_StopRewindsEveryTrack ==
    (lastOp.op = "stop") => \A t \in DOMAIN players : players[t].pos = 0

\* C9: in the Android engine at most one timer tick chain is scheduled or running.
C9_AtMostOneTickChain ==
    (platform = "android") => Cardinality(LiveRunnables) <= 1

\* C10: a timer expires at most once, and the tick that expires it leaves no timer
\* armed, playback stopped, and sends onTimerExpired exactly once.
C10_ExpiryFiresOnce ==
    /\ expiryCount <= 1
    /\ (lastOp.op = "tickExpired")
       => /\ timerConfig = NullConfig
          /\ timerRunnable = NullRunnable
          /\ ~isPlaying
          /\ \A t \in DOMAIN trackConfigs : ~trackConfigs[t].isPlaying /\ ~TrackPlaying(t)
          /\ Occurrences("onTimerExpired", lastEvents) = 1

TickOps == {"tick", "tickEnter", "tickCheck", "tickFade", "tickExpired"}

\* C11: a step of a timer callback whose timer has been cancelled (by stop(), by a
\* later setTimer or by expiry) changes no player, no track configuration and not
\* the playing flag, and is not an expiry.
C11_CancelledTickInert ==
    [][(lastOp'.op \in TickOps /\ lastOp'.from = "cancelled")
          => /\ players' = players
             /\ trackConfigs' = trackConfigs
             /\ isPlaying' = isPlaying
             /\ lastOp'.op # "tickExpired"]_vars

\* C12: right after the bridge's cancelTimer() has resolved true no timer is armed
\* (no timer configuration, no pending callback of the timer).
C12_CancelTimerDisarms ==
    (lastOp.op = "cancelTimer" /\ lastOp.ok)
    => /\ timerConfig = NullConfig
       /\ timerRunnable = NullRunnable

\* C13: while the transport is Stopped and no timer is armed, a step of a timer
\* callback starts no track, changes no player gain, leaves the playing flag and
\* the track configurations as they are, and is not an expiry.
C13_StopWinsOverTick ==
    [][(/\ transportState = "Stopped"
        /\ timerConfig = NullConfig
        /\ lastOp'.op \in TickOps)
          => /\ players' = players
             /\ trackConfigs' = trackConfigs
             /\ isPlaying' = isPlaying
             /\ lastOp'.op # "tickExpired"]_vars

\* C14: in the Android engine a tick of an armed timer with fadeOut and
\* 0 < remaining <= fadeOutDuration sets both gains of every playing, centre-panned
\* track to volume * masterVolume * remaining / fadeOutDuration, which is not above
\* the gain the timer's previous fade tick applied for the same stored volume; a
\* tick with remaining <= 0 is the expiry and leaves nothing playing.
C14_FadeGainDecreasesToStop ==
    [][(/\ platform = "android"
        /\ lastOp'.op \in {"tick", "tickFade", "tickExpired"}
        /\ timerConfig # NullConfig)
          => LET cfg == timerConfig[1]
                 remaining == cfg.duration - (now - timerStartTime)
             IN  /\ (remaining <= 0)
                        => /\ lastOp'.op = "tickExpired"
                           /\ ~isPlaying'
                           /\ \A t \in DOMAIN players' : ~PlayerIsPlaying(players'[t])
                 /\ (cfg.fadeOut /\ 0 < remaining /\ remaining <= cfg.fadeOutDuration)
                        => \A t \in DOMAIN players :
                              (trackConfigs[t].isPlaying /\ trackConfigs[t].pan = FZero)
                              => LET g == FMul(FMul(trackConfigs[t].volume, masterVolume),
                                               Frac(remaining, cfg.fadeOutDuration))
                                 IN  /\ players'[t].left = g
                                     /\ players'[t].right = g
                                     /\ (/\ t \in DOMAIN fadeGain
                                         /\ fadeGain[t].volume = trackConfigs[t].volume)
                                           => FLe(g, fadeGain[t].gain)]_vars

C14_Witness ==
    /\ platform = "android"
    /\ lastOp.op = "tickFade"
    /\ timerConfig # NullConfig
    /\ timerConfig[1].duration = 2 * TickPeriod
    /\ now - timerStartTime = TickPeriod
    /\ "rain" \in DOMAIN fadeGain
    /\ PlayerIsPlaying(players["rain"])
    /\ trackConfigs["rain"].volume = FOne
    /\ players["rain"].left = Frac(1, 2)
    /\ fadeGain["rain"].gain = Frac(1, 2)
    /\ fadeGain["rain"].prev = FOne

\* C15: in the Android engine the gains a fade tick applies under a timer armed with
\* fadeOutDuration > duration are those the same tick applies under fadeOutDuration
\* = duration: volume * masterVolume * remaining / min(fadeOutDuration, duration).
C15_FadeWindowClamped ==
    (/\ platform = "android"
     /\ lastOp.op = "tickFade"
     /\ timerConfig # NullConfig)
    => LET cfg == timerConfig[1]
           remaining == cfg.duration - (now - timerStartTime)
           clamped == IF cfg.fadeOutDuration > cfg.duration
                      THEN cfg.duration ELSE cfg.fadeOutDuration
       IN  \A t \in DOMAIN players :
              trackConfigs[t].isPlaying
              => players[t].left = FMul(FMul(trackConfigs[t].volume, masterVolume),
                                        FadeTarget(remaining, clamped))

\* C16: a step of a timer callback leaves every track's stored volume and stored pan
\* as they are, and with them the tracks saveScene would write.
C16_TicksKeepStoredMix ==
    [][(lastOp'.op \in TickOps)
          => /\ DOMAIN trackConfigs' = DOMAIN trackConfigs
             /\ \A t \in DOMAIN trackConfigs :
                   /\ trackConfigs'[t].volume = trackConfigs[t].volume
                   /\ trackConfigs'[t].pan = trackConfigs[t].pan
             /\ SceneTracks(trackConfigs') = SceneTracks(trackConfigs)]_vars

C16_Witness ==
    /\ lastOp.op = "tickFade"
    /\ "rain" \in DOMAIN players
    /\ trackConfigs["rain"].isPlaying
    /\ trackConfigs["rain"].volume = FOne
    /\ players["rain"].left = Frac(1, 2)
    /\ SceneTracks(trackConfigs) =
          [t \in {"rain"} |-> [audioFile |-> "rain.mp3", volume |-> FOne, pan |-> FZero]]

\* C17: in the Android engine, after a tick of the armed timer that lies outside
\* its fade window, no playing track has a gain below volume * masterVolume: a fade
\* applied under an earlier, cancelled or replaced timer has been undone.
C17_FadeUndoneAfterRearm ==
    (/\ platform = "android"
     /\ lastOp.op = "tick"
     /\ lastOp.from = "armed"
     /\ timerConfig # NullConfig)
    => \A t \in DOMAIN players :
          trackConfigs[t].isPlaying
          => LET unfaded == FMul(trackConfigs[t].volume, masterVolume)
             IN  ~FLt(players[t].left, unfaded) /\ ~FLt(players[t].right, unfaded)

\* C18: in the Android engine, right after a play() made in Stopped once the timer
\* has expired, no playing track has a gain below volume * masterVolume.
C18_PlayAfterExpiryUnfaded ==
    (/\ platform = "android"
     /\ lastOp.op = "play"
     /\ lastOp.ok
     /\ lastOp.from = "Stopped"
     /\ expiryCount >= 1
     /\ timerConfig = NullConfig)
    => \A t \in DOMAIN players :
          trackConfigs[t].isPlaying
          => LET unfaded == FMul(trackConfigs[t].volume, masterVolume)
             IN  ~FLt(players[t].left, unfaded) /\ ~FLt(players[t].right, unfaded)

PositiveTimer ==
    /\ timerConfig # NullConfig
    /\ IF platform = "android"
       THEN timerConfig[1].duration > 0
       ELSE FLt(FZero, timerConfig[1].duration)

Quiet ==
    /\ timerConfig = NullConfig
    /\ ~isPlaying
    /\ \A t \in DOMAIN players : ~TrackPlaying(t) /\ ~trackConfigs[t].isPlaying

CorrespondingEvent(eventName) ==
    CHOOSE a \in AudioEngineEvents : ToLowerCase(Spelling[a]) = HandlerEvent(eventName)
RegisteredUnder(event) ==
    IF event \in DOMAIN eventListeners THEN eventListeners[event] ELSE {}

\* C20: every native event the bridge forwards is delivered to the listeners
\* registered with addEventListener under the corresponding AudioEngineEvent name;
\* when the Android timer expires, each listener of 'timerExpired' is invoked and
\* the listeners of 'playbackStopped' are notified of the automatic stop.
C20_EventsReachListeners ==
    lastOp.op = "deliver" =>
        \A i \in DOMAIN invocations :
            invocations[i].event \in NativeEvents =>
                invocations[i].listeners = RegisteredUnder(CorrespondingEvent(invocations[i].event))


\* the number of calls of listener l in the last batch for the event, whichever way
\* its name was capitalised
TimesInvoked(l, event) ==
    Cardinality({i \in DOMAIN invocations :
                    /\ l \in invocations[i].listeners
                    /\ ToLowerCase(invocations[i].name) = ToLowerCase(Spelling[event])})
TransportMethods == {"play", "pause", "stop"}

OwnEvents ==
    {i \in DOMAIN invocations :
        /\ lastOp.from \in DOMAIN SuccessEvent
        /\ invocations[i].event = SuccessEvent[lastOp.from]}

\* C22: when an event is emitted to several listeners of the same event and one of
\* them throws, every other registered listener of that event is still invoked
\* (once), and the operation that emitted the event does not fail because of the
\* listener's exception.
C22_ListenerIsolation ==
    lastOp.op = "return" =>
        /\ \A i \in DOMAIN invocations :
              /\ invocations[i].listeners = GetListeners(eventListeners, invocations[i].name)
              /\ ~invocations[i].escaped
        /\ OwnEvents # {} =>
              /\ lastOp.ok
              /\ call.state = "resolved" /\ call.value
              /\ \A i \in DOMAIN invocations : invocations[i].event # "error"
              /\ \A i \in OwnEvents : \A l \in invocations[i].listeners :
                    TimesInvoked(l, invocations[i].event) = 1

\* play() emitted playbackStarted to l1, which threw, and l2
C22_Witness ==
    /\ lastOp.op = "return" /\ lastOp.from = "play" /\ lastOp.ok
    /\ OwnEvents = {1}
    /\ invocations[1].listeners = {"l1", "l2"}
    /\ invocations[1].threw = {"l1"}
    /\ "l1" \in ThrowingListeners /\ "l2" \notin ThrowingListeners


\* C23: before initialize() has succeeded, and again after destroy(), every other
\* caller-facing operation fails with EngineNotInitialized (here: it does not
\* report success) and changes no engine state.
C23_UninitializedCallsFail ==
    ~bridgeIsInitialized =>
        /\ (lastOp.op = "call" /\ lastOp.from # "initialize") =>
              call.state # "pending" /\ ~call.value
        /\ lastOp.op = "cancelTimer" => ~lastOp.ok

\* C27: after the teardown (destroy() through the bridge, onCatalystInstanceDestroy
\* in the Android engine) no track is playing, the track set is empty and no timer
\* is armed.
C27_TeardownLeavesNothing ==
    (lastOp.op = "destroy" \/ (lastOp.op = "return" /\ lastOp.from = "destroy")) =>
        /\ PlayingSet(players) = {}
        /\ players = << >> /\ trackConfigs = << >>
        /\ timerConfig = NullConfig /\ timerRunnable = NullRunnable


TrackMethods == {"setVolume", "setPanning", "removeTrack"}
TrackEvents == {"volumeChanged", "panningChanged", "trackRemoved"}

\* C24: setVolume, setPanning and removeTrack on an id that is not in the track set do
\* not succeed: the call rejects, or resolves false with a TRACK_NOT_FOUND error
\* reported; no volumeChanged, panningChanged or trackRemoved event is emitted, and
\* every track's volume, pan, isPlaying and gains and the transport state are unchanged.
C24_UnknownTrackRefused ==
    /\ [](((lastOp.op = "return" /\ lastOp.from \in TrackMethods
              /\ lastOp.id \notin DOMAIN players) =>
                /\ ~lastOp.ok
                /\ \E i \in DOMAIN invocations :
                      invocations[i].event = "error" /\ invocations[i].code = "TRACK_NOT_FOUND"
                /\ \A i \in DOMAIN invocations : invocations[i].event \notin TrackEvents)
          /\ ((lastOp.op = "call" /\ lastOp.from \in TrackMethods
                /\ lastOp.id \notin DOMAIN players) =>
                  (call.state = "resolved" => ~call.value)))
    /\ [][(lastOp'.op \in {"setVolume", "setPanning"} /\ lastOp'.id \notin DOMAIN players) =>
            UNCHANGED <<players, trackConfigs, isPlaying, transportState>>]_vars

\* setVolume on the unknown id "ocean" returned while "rain" was playing
C24_Witness ==
    /\ lastOp.op = "return" /\ lastOp.from = "setVolume" /\ lastOp.id = "ocean"
    /\ ~lastOp.ok
    /\ "rain" \in DOMAIN players /\ "ocean" \notin DOMAIN players
    /\ PlayerIsPlaying(players["rain"])
    /\ Len(invocations) = 1 /\ invocations[1].code = "TRACK_NOT_FOUND"


\* C25: addTrack(id, file) with an id that is already present fails with
\* DuplicateTrackId and leaves the existing track unchanged: its audio source (its
\* player), volume, pan and isPlaying are as before.
C25_DuplicateAddRefused ==
    [][\A t \in loading \cap DOMAIN players :
          loading' = loading \ {t} =>
              /\ t \in DOMAIN players' /\ players'[t] = players[t]
              /\ t \in DOMAIN trackConfigs' /\ trackConfigs'[t] = trackConfigs[t]]_vars


\* C26: removeTrack(id) on a playing track stops it, releases its audio resource and
\* removes it from the track set, so that it is no longer listed or started.
C26_RemovedTrackGone ==
    (lastOp.op = "return" /\ lastOp.from = "removeTrack" /\ lastOp.ok) =>
        /\ lastOp.id \notin DOMAIN players
        /\ lastOp.id \notin DOMAIN trackConfigs
        /\ lastOp.id \notin PlayingSet(players)


\* C28: if starting one track fails during play(), the failure is reported through the
\* error event and the transport ends in Playing (the other tracks having been
\* started).
C28_StartFailureTolerated ==
    (lastOp.op = "return" /\ lastOp.from = "play" /\ ~lastOp.ok /\ isInitialized) =>
        /\ \E i \in DOMAIN invocations : invocations[i].event = "error"
        /\ isPlaying


\* the scene stored by the step, if it stored one
NewScenes == DOMAIN scenes' \ DOMAIN scenes

C29_WitnessOmitted ==
    /\ platform = "ios" /\ lastOp.op = "saveScene"
    /\ DOMAIN trackConfigs = {"rain", "ocean"} /\ trackConfigs["rain"].volume = FZero
    /\ scenes[lastOp.id].tracks =
          [t \in {"ocean"} |->
              [audioFile |-> "ocean.mp3", volume |-> Frac(1, 2), pan |-> Frac(-1, 2)]]


\* C30: saving a scene that has tracks with volume > 0 and then loading it by the id
\* returned from saveScene into a fresh initialized engine yields exactly the saved
\* track ids, each with the volume and pan it was saved with, and no other tracks.
C30_SavedSceneReloads ==
    [][(/\ lastOp'.op = "call" /\ lastOp'.from = "loadScene"
        /\ bridgeIsInitialized /\ isInitialized
        /\ players = << >> /\ trackConfigs = << >> /\ loading = {}
        /\ lastOp'.id \in DOMAIN scenes
        /\ DOMAIN scenes[lastOp'.id].tracks # {}) =>
            \/ call'.state = "pending"
            \/ /\ call'.state = "resolved" /\ call'.value
               /\ DOMAIN players' = DOMAIN scenes[lastOp'.id].tracks
               /\ SceneTracks(trackConfigs') = scenes[lastOp'.id].tracks]_vars

\* the scene object with the given id
SceneObject(id) == CHOOSE scene \in LoadScenes : scene.id = id
SceneTrackIds(scene) == {scene.tracks[i].id : i \in DOMAIN scene.tracks}

\* C31: when loadScene(scene) resolves true, the engine's tracks are exactly the
\* tracks of the scene, with the scene's volume and pan, and while the scene is being
\* loaded no track that was not playing starts to play
C31_SceneReplacesTracks ==
    /\ [][(lastOp'.op = "return" /\ lastOp'.from = "loadScene" /\ lastOp'.ok) =>
            LET scene == SceneObject(lastOp'.id)
            IN  /\ DOMAIN trackConfigs' = SceneTrackIds(scene)
                /\ DOMAIN players' = SceneTrackIds(scene)
                /\ \A i \in DOMAIN scene.tracks :
                       /\ trackConfigs'[scene.tracks[i].id].volume = scene.tracks[i].volume
                       /\ trackConfigs'[scene.tracks[i].id].pan = scene.tracks[i].pan]_vars
    /\ [][sceneLoad.state = "running" =>
            \A t \in DOMAIN players' :
               PlayerIsPlaying(players'[t]) =>
                  t \in DOMAIN players /\ PlayerIsPlaying(players[t])]_vars

\* loadScene(s1) has resolved true, the scene's track rain has the scene's volume and
\* pan, and the track ocean, which is not in the scene, is still there and playing
C31_LeftoverTrack ==
    /\ lastOp.op = "return" /\ lastOp.from = "loadScene" /\ lastOp.ok /\ lastOp.id = "s1"
    /\ DOMAIN trackConfigs = {"rain", "ocean"}
    /\ trackConfigs["rain"].volume = FOne /\ trackConfigs["rain"].pan = Frac(-1, 2)
    /\ PlayerIsPlaying(players["ocean"])
    /\ trackConfigs["ocean"].isPlaying

\* C32: after setMasterVolume(m) has resolved true masterVolume is m, within [0, 1],
\* and (no timer being armed, so with the fade multiplier 1) every track's gains are
\* the pan law applied to volume * m; masterVolume is 1.0 until it is set.
C32_MasterVolumeApplied ==
    /\ [][(call'.method = "setMasterVolume" /\ call'.state = "resolved" /\ call'.value
             /\ lastOp'.op = "call") =>
                /\ masterVolume' = call'.arg
                /\ InRange(masterVolume', FZero, FOne)
                /\ \A t \in DOMAIN players' :
                      LET g == PanVolumes(FMul(trackConfigs'[t].volume, masterVolume'),
                                          trackConfigs'[t].pan)
                      IN  players'[t].left = g.left /\ players'[t].right = g.right]_vars
    /\ [][(masterVolume' # FOne) => (masterVolume' = masterVolume
                                      \/ lastOp'.from = "setMasterVolume")]_vars

\* setMasterVolume(1/2) has resolved true with a track present and playing, and
\* masterVolume is still 1
C32_MasterVolumeIgnored ==
    /\ call.method = "setMasterVolume" /\ call.state = "resolved" /\ call.value
    /\ call.arg = Frac(1, 2)
    /\ masterVolume = FOne
    /\ "rain" \in DOMAIN players /\ PlayerIsPlaying(players["rain"])

\* the time left of the armed timer in ms, as a tick computes it
RemainingMillis == timerConfig[1].duration - (now - timerStartTime)
TimerArmedUnexpired == timerConfig # NullConfig /\ RemainingMillis > 0

\* C33: while a timer is armed and unexpired getRemainingTime() returns
\* duration - (now - armedAt) in minutes, which is > 0 and does not grow from one call
\* to the next; it returns 0 only when no timer is armed.
C33_RemainingTimeReported ==
    /\ [](lastOp.op = "getRemainingTime" =>
            /\ TimerArmedUnexpired =>
                  /\ lastOp.arg = Frac(RemainingMillis, 60000)
                  /\ FLt(FZero, lastOp.arg)
            /\ lastOp.arg = FZero => timerConfig = NullConfig)
    /\ [][(lastOp.op = "getRemainingTime" /\ lastOp'.op = "getRemainingTime") =>
            FLe(lastOp'.arg, lastOp.arg)]_vars

\* getRemainingTime() has returned 0 one second into an armed timer of two seconds
C33_ZeroWhileArmed ==
    /\ lastOp.op = "getRemainingTime" /\ lastOp.arg = FZero
    /\ timerConfig # NullConfig /\ timerRunnable # NullRunnable
    /\ timerConfig[1].duration = 2000 /\ now - timerStartTime = 1000

\* C34: play(), pause() and stop() of the caller, also a play() that fails part-way,
\* interleaved with the stop of an expiring timer: once the operations have completed,
\* whenever the engine's playing flag is false no track is playing.
C34_TransportConsistent ==
    (tick.pc = "idle" /\ ~isPlaying) =>
        \A t \in DOMAIN players :
           ~PlayerIsPlaying(players[t]) /\ ~trackConfigs[t].isPlaying

\* play() has been rejected after it had started rain: the flag is false, rain plays
C34_PartialPlay ==
    /\ lastOp.op = "play" /\ ~lastOp.ok /\ lastOp.id = "ocean"
    /\ ~isPlaying
    /\ DOMAIN players = TrackIds
    /\ PlayerIsPlaying(players["rain"]) /\ ~PlayerIsPlaying(players["ocean"])

\* the expiring timer's stop() has finished after a play() that ran between its loop
\* and its last statements: the flag is false, both tracks play
C34_StopOverPlay ==
    /\ lastOp.op = "tickExpired"
    /\ tick.pc = "idle" /\ ~isPlaying
    /\ \A t \in TrackIds : t \in DOMAIN players /\ PlayerIsPlaying(players[t])

\* C35: when the load of addTrack publishes the new track while play() iterates the
\* tracks, play() succeeds and has started every track that was present and due to be
\* started when it began, and the map holds the old tracks and the new one.
C35_PublishDuringIteration ==
    [][lastOp'.op = "playPublish" =>
          /\ lastOp'.ok
          /\ \A t \in DOMAIN players :
                ShouldStart(players, trackConfigs, t) => PlayerIsPlaying(players'[t])
          /\ DOMAIN players' = DOMAIN players \cup {lastOp'.id}
          /\ DOMAIN trackConfigs' = DOMAIN trackConfigs \cup {lastOp'.id}]_vars

\* play() has been rejected because ocean was published during its iteration: rain,
\* which was present and audible, has not been started
C35_IterationBroken ==
    /\ lastOp.op = "playPublish" /\ ~lastOp.ok /\ lastOp.id = "ocean"
    /\ DOMAIN players = TrackIds
    /\ FLt(FZero, trackConfigs["rain"].volume)
    /\ ~PlayerIsPlaying(players["rain"])
    /\ ~isPlaying

\* the fade multiplier of the armed timer at the present time
FadeMultiplier ==
    FadeTarget(timerConfig[1].duration - (now - timerStartTime), timerConfig[1].fadeOutDuration)

\* C36: after a tick in the fade window of the Android engine every playing track with
\* a stored pan p # 0 has the gains of the pan law applied to
\* base = volume * masterVolume * fadeMultiplier: (base, base * (1 + p)) for p < 0 and
\* (base * (1 - p), base) for p >= 0.
C36_FadeKeepsPan ==
    (platform = "android" /\ lastOp.op = "tickFade" /\ timerConfig # NullConfig) =>
        \A t \in DOMAIN players :
           (trackConfigs[t].isPlaying /\ trackConfigs[t].pan # FZero) =>
               LET base == FMul(FMul(trackConfigs[t].volume, masterVolume), FadeMultiplier)
                   g == PanVolumes(base, trackConfigs[t].pan)
               IN  players[t].left = g.left /\ players[t].right = g.right

\* a fade tick has run on rain, playing with volume 1 and pan -1/2: both gains are 1/2,
\* the right gain set by setPanning has not been kept in proportion
C36_PanLost ==
    /\ platform = "android" /\ lastOp.op = "tickFade"
    /\ "rain" \in DOMAIN players
    /\ trackConfigs["rain"].isPlaying
    /\ trackConfigs["rain"].volume = FOne /\ trackConfigs["rain"].pan = Frac(-1, 2)
    /\ players["rain"].left = Frac(1, 2) /\ players["rain"].right = Frac(1, 2)

\* C37: in the fade window of the armed timer of the Android engine, once a fade tick
\* has run, a playing track's applied gains do not exceed stored volume * masterVolume
\* * the multiplier of the most recent fade tick, whatever setVolume or setPanning
\* calls have been made since (fadeGain holds that tick's gain g for the stored volume
\* v it read, so the multiplier times masterVolume is g / v).
C37_GainStaysFaded ==
    (platform = "android" /\ InFadeWindow) =>
        \A t \in DOMAIN fadeGain \cap DOMAIN players :
           (trackConfigs[t].isPlaying /\ FLt(FZero, fadeGain[t].volume)) =>
               LET bound == FMul(trackConfigs[t].volume, fadeGain[t].gain)
               IN  /\ FLe(FMul(players[t].left, fadeGain[t].volume), bound)
                   /\ FLe(FMul(players[t].right, fadeGain[t].volume), bound)

\* setVolume(rain, 1) after a fade tick had brought the playing track to the gain 1/2:
\* the gain is back at 1 while the timer is still in its fade window
C37_FadeOverwritten ==
    /\ platform = "android" /\ InFadeWindow
    /\ lastOp.op = "setVolume" /\ lastOp.id = "rain" /\ lastOp.ok
    /\ "rain" \in DOMAIN fadeGain /\ fadeGain["rain"].gain = Frac(1, 2)
    /\ trackConfigs["rain"].isPlaying /\ trackConfigs["rain"].volume = FOne
    /\ players["rain"].left = FOne

\* C38: a tick of the iOS engine with 0 < remaining <= fadeOutDuration sets the volume of
\* the player of every playing track to stored volume * remaining / fadeOutDuration,
\* whatever earlier ticks did, and leaves the players of the other tracks alone.
C38_IOSFadeLinear ==
    [][(platform = "ios" /\ lastOp'.op = "tickFade" /\ timerConfig # NullConfig) =>
          LET cfg == timerConfig[1]
              remaining == FSub(cfg.duration, Frac(now - timerStartTime, 1))
              multiplier == Frac(remaining.n * cfg.fadeOutDuration.d,
                                 remaining.d * cfg.fadeOutDuration.n)
          IN  \A t \in DOMAIN players :
                 IF players[t].playing
                 THEN players'[t].volume = FMul(trackConfigs[t].volume, multiplier)
                 ELSE players'[t].volume = players[t].volume]_vars

\* the second tick in the fade window, one second before the end of a fade of four
\* seconds: the playing track with stored volume 1 is at 1/8, not at 1/4
C38_Cumulative ==
    /\ platform = "ios" /\ lastOp.op = "tickFade"
    /\ now - timerStartTime = 2000
    /\ "rain" \in DOMAIN players /\ players["rain"].playing
    /\ trackConfigs["rain"].volume = FOne
    /\ players["rain"].volume = Frac(1, 8)

\* a tick in the fade window has halved the volume of a player that is not playing
C38_SilentTrackScaled ==
    /\ platform = "ios" /\ lastOp.op = "tickFade"
    /\ now - timerStartTime = 1000
    /\ "rain" \in DOMAIN players /\ ~players["rain"].playing
    /\ trackConfigs["rain"].volume = FOne
    /\ players["rain"].volume = Frac(1, 2)

\* the bridge methods that validate a volume or a pan, and whether the argument of the
\* last call of one of them is outside its range
ParamMethods == {"setVolume", "setMasterVolume", "setPanning"}
ParamEvents == {"volumeChanged", "panningChanged"}
InvalidParamCall ==
    /\ call.method \in ParamMethods
    /\ IF call.method = "setPanning"
       THEN ~InRange(call.arg, FMinusOne, FOne)
       ELSE ~InRange(call.arg, FZero, FOne)

\* a call with an invalid argument is refused without effect: the step that makes it
\* changes no track, no gain and not masterVolume, no native setVolume or setPanning
\* follows it, and no volumeChanged or panningChanged event is emitted for it
InvalidParamInert ==
    /\ [](InvalidParamCall =>
            /\ call.state = "rejected"
            /\ \A i \in DOMAIN invocations : invocations[i].event \notin ParamEvents)
    /\ [][InvalidParamCall' =>
            /\ UNCHANGED <<players, trackConfigs, masterVolume>>
            /\ lastOp'.op \notin {"setVolume", "setPanning"}]_vars

\* C39 as stated: setVolume and setMasterVolume with a volume outside [0, 1] and
\* setPanning with a pan outside [-1, 1] fail with INVALID_PARAMETER before any native
\* call is made, with no change of a stored volume, pan or gain and no volumeChanged or
\* panningChanged event.
C39_InvalidParameterAlways ==
    /\ [](InvalidParamCall => call.error = "INVALID_PARAMETER")
    /\ InvalidParamInert

\* C39, amended: such a call fails before any native call is made, with no change and
\* no event; the error is INVALID_PARAMETER when the bridge is initialized and
\* ENGINE_NOT_INITIALIZED when it is not.
C39_InvalidParameterRefused ==
    /\ [](InvalidParamCall =>
            call.error = IF bridgeIsInitialized
                         THEN "INVALID_PARAMETER" ELSE "ENGINE_NOT_INITIALIZED")
    /\ InvalidParamInert

\* setVolume(rain, 3/2) has been refused with INVALID_PARAMETER on the initialized
\* bridge while rain was playing with the volume 1
C39_Witness ==
    /\ bridgeIsInitialized
    /\ lastOp.op = "call" /\ call.method = "setVolume" /\ call.id = "rain"
    /\ call.arg = Frac(3, 2)
    /\ call.state = "rejected" /\ call.error = "INVALID_PARAMETER"
    /\ "rain" \in DOMAIN players /\ PlayerIsPlaying(players["rain"])
    /\ trackConfigs["rain"].volume = FOne /\ players["rain"].left = FOne

\* neither engine has a timer callback that is due or running
Settled ==
    /\ running = 0 /\ tick.pc = "idle"
    /\ \A r \in DOMAIN queue : queue[r] > now
    /\ \A r \in DOMAIN peer.queue : peer.queue[r] > now

\* C40: given the same calls, and each having run the timer callbacks due so far, the
\* Android and the iOS engine have the same track ids with equal stored volume, pan
\* and isPlaying, the same engine playing flag, and a timer armed in both or in neither.
C40_EnginesAgree ==
    Settled =>
        /\ DOMAIN trackConfigs = DOMAIN peer.trackConfigs
        /\ \A t \in DOMAIN trackConfigs \cap DOMAIN peer.trackConfigs :
              /\ trackConfigs[t].volume = peer.trackConfigs[t].volume
              /\ trackConfigs[t].pan = peer.trackConfigs[t].pan
              /\ trackConfigs[t].isPlaying = peer.trackConfigs[t].isPlaying
        /\ isPlaying = peer.isPlaying
        /\ (timerConfig = NullConfig) = (peer.timerConfig = NullConfig)

\* both engines were playing rain and given setTimer(0): at the same instant the
\* Android engine has expired and stopped, the iOS engine is playing with its timer armed
C40_ImmediateExpiry ==
    /\ Settled /\ now = 0
    /\ lastOp.op = "other" /\ expiryCount = 1
    /\ timerConfig = NullConfig /\ ~isPlaying
    /\ "rain" \in DOMAIN players /\ ~trackConfigs["rain"].isPlaying
    /\ peer.timerConfig # NullConfig /\ peer.isPlaying
    /\ peer.trackConfigs["rain"].isPlaying

====
